---- MODULE Spec2Model ----
(***************************************************************************)
(* The offline sync queue of the inspection app: syncQueueService (add,    *)
(* getPending, updateStatus, markSynced, markFailed, retryFailed,          *)
(* clearSynced, clearAll, processQueue) over the Dexie table db.syncQueue, *)
(* the useOnlineStatus hook that triggers drains, and the repositories     *)
(* (templateService, inspectionService, photoService) that write           *)
(* db.templates, db.inspections and db.photos and enqueue their changes.   *)
(*                                                                         *)
(* Every `await` of the source is a suspension point: an async function is *)
(* one action per stretch of code between two awaits, and the position of  *)
(* each call in flight is part of the state.                               *)
(***************************************************************************)
EXTENDS Integers, Sequences, FiniteSets, TLC

\* ---------------------------------------------------------------- bounds
\* Number of distinct queue item ids crypto.randomUUID() can hand out.
MaxIds == 2
\* Largest value of the clock read by new Date().
MaxTime == 1
\* Cap on retryCount (the counter is unbounded in the code).
MaxRetry == 1
\* Largest number of sections of a template and of items of a section.
MaxItems == 2

\* ---------------------------------------------------------------- values
SyncActions == {"create", "update", "delete"}
SyncStatuses == {"pending", "syncing", "synced", "failed"}
\* (entityType, entityId) pairs; the two share the entityId and differ in type.
Entities == {<<"template", "e1">>, <<"inspection", "e1">>}
\* Payloads handed to add; NoData is JavaScript's undefined.
Payloads == {[payload |-> "d1"], [payload |-> "d2"]}
NoData == [undefined |-> TRUE]
\* Messages of the errors a drain catches; "" is the message of new Error().
ErrorMessages == {"", "net"}
NoError == "undefined"
ItemIds == 1..MaxIds
\* No item (undefined) where an id is expected.
NoItem == 0
\* lastAttemptAt of an item that was never attempted.
NoTime == -1
AddCallers == {"a1", "a2"}
Drains == {"p1", "p2"}

VARIABLES
  queue,      \* db.syncQueue: item id -> stored item
  usedIds,    \* ids crypto.randomUUID() has returned so far
  now,        \* the clock
  addCall,    \* per caller: the add() call in flight, if any
  drain,      \* per drain slot: the processQueue() call in flight, if any
  app,        \* what outlives a component: useAppStore and localStorage
  hook,       \* the useOnlineStatus instance of the Settings page
  returned,   \* the add call that returned in the last step, if one did
  db,         \* db.templates, db.inspections and db.photos: id -> stored record
  uuids,      \* photo ids crypto.randomUUID() has returned so far
  page,       \* InspectionDetail: the inspection held in the component's state
  backup,     \* Settings: the last exported file and the last import's result
  editor,     \* TemplateEditor: the template held in the component's state
  flight,     \* per caller: the item call of inspectionService in flight, if any
  boot        \* db.settings, and per caller the initializeDatabase() call in flight

\* The state of the pages that work on stored records.
client == <<page, backup, editor, flight, boot>>

vars == <<queue, usedIds, now, addCall, drain, app, hook, returned, db, uuids, page,
          backup, editor, flight, boot>>

\* ------------------------------------------------------------ the table
\* new Date(): the clock never goes back; two reads may see the same instant.
Dates == {t \in {now, now + 1} : t <= MaxTime}

\* createSyncQueueItem: a fresh pending item.
createSyncQueueItem(action, entityType, entityId, data, t) ==
  [action |-> action, entityType |-> entityType, entityId |-> entityId,
   data |-> data, createdAt |-> t, status |-> "pending", retryCount |-> 0,
   lastError |-> NoError, lastAttemptAt |-> NoTime]

\* The ids of the stored items with the given status.
WithStatus(q, status) == {id \in DOMAIN q : q[id].status = status}

\* A lookup that matches on entityId alone.
PendingForAnyType(q, entityType, entityId) ==
  {id \in DOMAIN q : q[id].entityId = entityId /\ q[id].status = "pending"}

\* where(['entityType','entityId']).equals([..]).and(status = pending)
PendingFor(q, entityType, entityId) ==
  {id \in DOMAIN q : /\ q[id].entityType = entityType
                     /\ q[id].entityId = entityId
                     /\ q[id].status = "pending"}

\* .first(): the match with the least primary key, or undefined.
FirstOf(ids) ==
  IF ids = {} THEN NoItem ELSE CHOOSE id \in ids : \A other \in ids : id <= other

\* db.syncQueue.update(id, changes): no record with that key, no change.
TableUpdate(q, id, changes) ==
  IF id \in DOMAIN q
    THEN [q EXCEPT ![id] = [f \in DOMAIN q[id] \cup DOMAIN changes |->
                              IF f \in DOMAIN changes THEN changes[f] ELSE q[id][f]]]
    ELSE q

\* db.syncQueue.delete(id)
TableDelete(q, id) == [i \in DOMAIN q \ {id} |-> q[i]]

\* db.syncQueue.add(item) under a key not in the table.
TableAdd(q, id, item) == [i \in DOMAIN q \cup {id} |-> IF i = id THEN item ELSE q[i]]

EmptyQueue == [i \in {} |-> 0]

\* ------------------------------------------------------------------ add
\* The action written over an existing pending item (the merge rule).
MergedAction(action, existingAction) ==
  IF action = "delete" THEN "delete"
  ELSE IF existingAction = "create" THEN "create" ELSE action

\* The data written over an existing pending item.
MergedData(action, data) == IF action # "delete" THEN data ELSE NoData

\* No add call by this caller is in flight. midDrain of a call in flight is the
\* drains that were in flight when the call was made.
IdleCall ==
  [pc |-> "idle", action |-> "create", entityType |-> "template", entityId |-> "e1",
   data |-> NoData, existing |-> NoItem, existingAction |-> "none",
   midDrain |-> {}]

\* No add call returned in the last step.
NoCall ==
  [op |-> "none", action |-> "create", entityType |-> "template", entityId |-> "e1",
   data |-> NoData, existing |-> NoItem, existingAction |-> "none", id |-> NoItem]

\* add(action, entityType, entityId, data) returned id, having found existing
\* (with existingAction) in its lookup.
AddReturned(action, entityType, entityId, data, existing, existingAction, id) ==
  [op |-> "add", action |-> action, entityType |-> entityType, entityId |-> entityId,
   data |-> data, existing |-> existing, existingAction |-> existingAction, id |-> id]

\* The arguments the repositories pass: a record for create and update,
\* nothing for delete.
AddArgs == {<<a, d>> \in SyncActions \X (Payloads \cup {NoData}) :
              (a = "delete") <=> (d = NoData)}

\* add is called for one of the given entities and its lookup of an existing
\* pending item completes.
AddLookup(c, entities) ==
  /\ addCall[c].pc = "idle"
  /\ \E args \in AddArgs, e \in entities :
       LET found == FirstOf(PendingFor(queue, e[1], e[2])) IN
       addCall' = [addCall EXCEPT ![c] =
         [pc |-> "found", action |-> args[1], entityType |-> e[1], entityId |-> e[2],
          data |-> args[2], existing |-> found,
          existingAction |-> IF found = NoItem THEN "none" ELSE queue[found].action,
          midDrain |-> {d \in Drains : drain[d].pc # "idle"}]]
  /\ UNCHANGED <<client, db, uuids, queue, usedIds, now, drain, app, hook>>
  /\ returned' = NoCall

\* No drain in this slot. arrived is the latest add call, if any, that was made
\* and returned while the drain was in flight.
IdleDrain ==
  [pc |-> "idle", pending |-> <<>>, i |-> 0, success |-> 0, failed |-> 0,
   byMounted |-> FALSE, arrived |-> <<>>]

\* The record of drain d once the add call has returned.
Arrived(d, dr, call) ==
  IF d \in call.midDrain
    THEN [dr EXCEPT !.arrived = <<[entityType |-> call.entityType,
                                   entityId |-> call.entityId,
                                   data |-> MergedData(call.action, call.data)]>>]
    ELSE dr

\* An update of the found item that keeps its createdAt.
CoalescedKeepingDate(q, existing, existingAction, action, data, t) ==
  TableUpdate(q, existing,
    [action |-> MergedAction(action, existingAction),
     data |-> MergedData(action, data)])

\* The table after add's update of the item found by its lookup.
Coalesced(q, existing, existingAction, action, data, t) ==
  TableUpdate(q, existing,
    [action |-> MergedAction(action, existingAction),
     data |-> MergedData(action, data),
     createdAt |-> t])

\* The table after add's insert of a new item under a fresh id.
Enqueued(q, id, action, entityType, entityId, data, t) ==
  TableAdd(q, id, createSyncQueueItem(action, entityType, entityId, data, t))

\* The found item is updated in place and its id returned; the call is over.
AddUpdate(c) ==
  /\ addCall[c].pc = "found"
  /\ addCall[c].existing # NoItem
  /\ \E t \in Dates :
       /\ queue' = Coalesced(queue, addCall[c].existing, addCall[c].existingAction,
                             addCall[c].action, addCall[c].data, t)
       /\ now' = t
  /\ addCall' = [addCall EXCEPT ![c] = IdleCall]
  /\ returned' = AddReturned(addCall[c].action, addCall[c].entityType,
                             addCall[c].entityId, addCall[c].data, addCall[c].existing,
                             addCall[c].existingAction, addCall[c].existing)
  /\ drain' = [d \in Drains |-> Arrived(d, drain[d], addCall[c])]
  /\ UNCHANGED <<client, db, uuids, usedIds, app, hook>>

\* No pending item was found: a new item is inserted and its id returned; the
\* call is over.
AddInsert(c) ==
  /\ addCall[c].pc = "found"
  /\ addCall[c].existing = NoItem
  /\ \E id \in ItemIds \ usedIds, t \in Dates :
       /\ queue' = Enqueued(queue, id, addCall[c].action, addCall[c].entityType,
                            addCall[c].entityId, addCall[c].data, t)
       /\ usedIds' = usedIds \cup {id}
       /\ now' = t
       /\ returned' = AddReturned(addCall[c].action, addCall[c].entityType,
                                  addCall[c].entityId, addCall[c].data, NoItem, "none", id)
  /\ addCall' = [addCall EXCEPT ![c] = IdleCall]
  /\ drain' = [d \in Drains |-> Arrived(d, drain[d], addCall[c])]
  /\ UNCHANGED <<client, db, uuids, app, hook>>

\* add(action, entityType, entityId, data) from call to return with no other
\* call's step in between: the lookup, then the update or the insert.
Add(action, entityType, entityId, data) ==
  LET existing == FirstOf(PendingFor(queue, entityType, entityId)) IN
  /\ \E t \in Dates :
       /\ now' = t
       /\ IF existing # NoItem
            THEN /\ queue' = Coalesced(queue, existing, queue[existing].action,
                                       action, data, t)
                 /\ usedIds' = usedIds
                 /\ returned' = AddReturned(action, entityType, entityId, data, existing,
                                            queue[existing].action, existing)
            ELSE \E id \in ItemIds \ usedIds :
                 /\ queue' = Enqueued(queue, id, action, entityType, entityId, data, t)
                 /\ usedIds' = usedIds \cup {id}
                 /\ returned' = AddReturned(action, entityType, entityId, data, NoItem,
                                            "none", id)
  /\ UNCHANGED <<addCall, drain, app, hook>>

\* Some add call with the given arguments for one of the given entities, run
\* alone.
AddAlone(arguments, entities) ==
  /\ \E args \in arguments, e \in entities : Add(args[1], e[1], e[2], args[2])
  /\ UNCHANGED <<client, db, uuids>>

\* ----------------------------------------------------- single-step calls
\* An order by descending createdAt.
After(q, a, b) ==
  \/ q[a].createdAt > q[b].createdAt
  \/ q[a].createdAt = q[b].createdAt /\ a < b

\* Whether an item sorts before another in getPending: by createdAt, and among
\* equal dates (a stable sort of the index's output) by primary key.
Before(q, a, b) ==
  \/ q[a].createdAt < q[b].createdAt
  \/ q[a].createdAt = q[b].createdAt /\ a < b

\* getPending: the pending items in ascending createdAt order, as copies.
getPending(q) ==
  LET ids == WithStatus(q, "pending")
      n == Cardinality(ids)
      order == CHOOSE s \in [1..n -> ids] :
                 \A i, j \in 1..n : i < j => Before(q, s[i], s[j])
  IN [i \in 1..n |-> [id |-> order[i], action |-> q[order[i]].action,
                      entityType |-> q[order[i]].entityType,
                      entityId |-> q[order[i]].entityId, data |-> q[order[i]].data,
                      createdAt |-> q[order[i]].createdAt]]

\* An error string counts in `if (error)` unless it is undefined or empty.
Truthy(error) == error # NoError /\ error # ""

\* updateStatus(id, status, error) at time t, as one table read and write.
updateStatus(q, id, status, error, t) ==
  LET base == [status |-> status, lastAttemptAt |-> t]
      withError == IF id \in DOMAIN q
                     THEN [status |-> status, lastAttemptAt |-> t, lastError |-> error,
                           retryCount |-> q[id].retryCount + 1]
                     ELSE [status |-> status, lastAttemptAt |-> t, lastError |-> error]
  IN TableUpdate(q, id, IF Truthy(error) THEN withError ELSE base)

\* updateStatus stays within the cap on retryCount.
WithinRetryCap(q, id, error) ==
  (Truthy(error) /\ id \in DOMAIN q) => q[id].retryCount < MaxRetry

\* A markSynced that keeps the item and stores the status synced.
markSyncedKept(q, id) == TableUpdate(q, id, [status |-> "synced"])

\* markSynced(id): the item is removed.
markSynced(q, id) == TableDelete(q, id)

\* A markFailed that records the attempt and leaves the item pending.
markFailedLeftPending(q, id, error, t) == updateStatus(q, id, "pending", error, t)

\* markFailed(id, error)
markFailed(q, id, error, t) == updateStatus(q, id, "failed", error, t)

\* A retry that keeps the count of attempts.
retryFailedKeepingCount(q) ==
  [id \in DOMAIN q |-> IF q[id].status = "failed"
                         THEN [q[id] EXCEPT !.status = "pending"]
                         ELSE q[id]]

\* retryFailed(): every failed item back to pending with retryCount 0.
retryFailed(q) ==
  [id \in DOMAIN q |-> IF q[id].status = "failed"
                         THEN [q[id] EXCEPT !.status = "pending", !.retryCount = 0]
                         ELSE q[id]]

\* clearSynced(): every item with status synced is removed.
clearSynced(q) == [id \in DOMAIN q \ WithStatus(q, "synced") |-> q[id]]

MarkSynced ==
  /\ \E id \in DOMAIN queue : queue' = markSynced(queue, id)
  /\ UNCHANGED <<client, db, uuids, usedIds, now, addCall, drain, app, hook>>
  /\ returned' = NoCall

MarkFailed ==
  /\ \E id \in DOMAIN queue, error \in ErrorMessages, t \in Dates :
       /\ WithinRetryCap(queue, id, error)
       /\ queue' = markFailed(queue, id, error, t)
       /\ now' = t
  /\ UNCHANGED <<client, db, uuids, usedIds, addCall, drain, app, hook>>
  /\ returned' = NoCall

UpdateStatus ==
  /\ \E id \in DOMAIN queue, status \in SyncStatuses,
        error \in ErrorMessages \cup {NoError}, t \in Dates :
       /\ WithinRetryCap(queue, id, error)
       /\ queue' = updateStatus(queue, id, status, error, t)
       /\ now' = t
  /\ UNCHANGED <<client, db, uuids, usedIds, addCall, drain, app, hook>>
  /\ returned' = NoCall

RetryFailed ==
  /\ queue' = retryFailed(queue)
  /\ UNCHANGED <<client, db, uuids, usedIds, now, addCall, drain, app, hook>>
  /\ returned' = NoCall

ClearSynced ==
  /\ queue' = clearSynced(queue)
  /\ UNCHANGED <<client, db, uuids, usedIds, now, addCall, drain, app, hook>>
  /\ returned' = NoCall

ClearAll ==
  /\ queue' = EmptyQueue
  /\ UNCHANGED <<client, db, uuids, usedIds, now, addCall, drain, app, hook>>
  /\ returned' = NoCall

\* --------------------------------------------------------- processQueue
\* A loop that an item's failure ends.
AdvanceUntilFailure(dr, success, failed) ==
  [dr EXCEPT !.pc = IF dr.i < Len(dr.pending) /\ failed = dr.failed
                      THEN "loop" ELSE "done",
             !.i = dr.i + 1, !.success = success, !.failed = failed]

\* The loop moves on from item i: to the next item of the snapshot, whose
\* simulated remote call starts, or past the last one to the return statement.
Advance(dr, success, failed) ==
  [dr EXCEPT !.pc = IF dr.i < Len(dr.pending) THEN "loop" ELSE "done",
             !.i = dr.i + 1, !.success = success, !.failed = failed]

\* A processQueue that stores every item of its snapshot as syncing before the
\* loop.
ProcessQueueStartMarkingSyncing(d) ==
  /\ drain[d].pc = "idle"
  /\ drain' = [drain EXCEPT ![d] =
       Advance([IdleDrain EXCEPT !.pending = getPending(queue)], 0, 0)]
  /\ queue' = [id \in DOMAIN queue |->
                 IF queue[id].status = "pending"
                   THEN [queue[id] EXCEPT !.status = "syncing"] ELSE queue[id]]
  /\ addCall' = [c \in AddCallers |-> [addCall[c] EXCEPT !.midDrain = @ \ {d}]]
  /\ UNCHANGED <<client, db, uuids, usedIds, now, app, hook>>
  /\ returned' = NoCall

\* processQueue is called and getPending resolves with the snapshot; the loop
\* enters its first item (the log line, then the wait for the remote call).
ProcessQueueStart(d) ==
  /\ drain[d].pc = "idle"
  /\ drain' = [drain EXCEPT ![d] =
       Advance([IdleDrain EXCEPT !.pending = getPending(queue)], 0, 0)]
  /\ addCall' = [c \in AddCallers |-> [addCall[c] EXCEPT !.midDrain = @ \ {d}]]
  /\ UNCHANGED <<client, db, uuids, queue, usedIds, now, app, hook>>
  /\ returned' = NoCall

\* processQueue returns {success, failed} to a direct caller.
ProcessQueueReturn(d) ==
  /\ drain[d].pc = "done"
  /\ drain' = [drain EXCEPT ![d] = IdleDrain]
  /\ addCall' = [c \in AddCallers |-> [addCall[c] EXCEPT !.midDrain = @ \ {d}]]
  /\ UNCHANGED <<client, db, uuids, queue, usedIds, now, app, hook>>
  /\ returned' = NoCall

\* The try block of item i completes: markSynced removes the item.
ItemSynced(d) ==
  /\ drain[d].pc = "loop"
  /\ queue' = markSynced(queue, drain[d].pending[drain[d].i].id)
  /\ drain' = [drain EXCEPT ![d] =
       Advance(drain[d], drain[d].success + 1, drain[d].failed)]
  /\ UNCHANGED <<client, db, uuids, usedIds, now, addCall, app, hook>>
  /\ returned' = NoCall

\* The try block of item i throws: the catch block calls markFailed with the
\* error's message.
ItemFailed(d) ==
  /\ drain[d].pc = "loop"
  /\ \E error \in ErrorMessages, t \in Dates :
       LET id == drain[d].pending[drain[d].i].id IN
       /\ WithinRetryCap(queue, id, error)
       /\ queue' = markFailed(queue, id, error, t)
       /\ now' = t
  /\ drain' = [drain EXCEPT ![d] =
       Advance(drain[d], drain[d].success, drain[d].failed + 1)]
  /\ UNCHANGED <<client, db, uuids, usedIds, addCall, app, hook>>
  /\ returned' = NoCall

\* The try block of item i throws and, in the catch block, the store write of
\* markFailed throws too: nothing is written and the error leaves the loop and
\* processQueue.
ItemRejected(d) ==
  /\ drain[d].pc = "loop"
  /\ drain' = [drain EXCEPT ![d].pc = "rejected"]
  /\ UNCHANGED <<client, db, uuids, queue, usedIds, now, addCall, app, hook>>
  /\ returned' = NoCall

\* The promise of processQueue rejects at a direct caller.
ProcessQueueRejected(d) ==
  /\ drain[d].pc = "rejected"
  /\ drain' = [drain EXCEPT ![d] = IdleDrain]
  /\ addCall' = [c \in AddCallers |-> [addCall[c] EXCEPT !.midDrain = @ \ {d}]]
  /\ UNCHANGED <<client, db, uuids, queue, usedIds, now, app, hook>>
  /\ returned' = NoCall

\* The process stops while the loop waits at item i: the items before it are
\* handled, item i and the items after it are not, and the call never
\* returns.
Abandon(d) ==
  /\ drain[d].pc = "loop"
  /\ drain' = [drain EXCEPT ![d].pc = "abandoned"]
  /\ UNCHANGED <<client, db, uuids, queue, usedIds, now, addCall, app, hook>>
  /\ returned' = NoCall

\* The application is loaded again: nothing of the abandoned call is left.
Reload(d) ==
  /\ drain[d].pc = "abandoned"
  /\ drain' = [drain EXCEPT ![d] = IdleDrain]
  /\ addCall' = [c \in AddCallers |-> [addCall[c] EXCEPT !.midDrain = @ \ {d}]]
  /\ UNCHANGED <<client, db, uuids, queue, usedIds, now, app, hook>>
  /\ returned' = NoCall

\* ------------------------------------------------------ useOnlineStatus
\* The Settings page is not on screen.
Unmounted ==
  [mounted |-> FALSE, isSyncing |-> FALSE, seenOnline |-> FALSE,
   seenSyncing |-> FALSE, lastSyncedAt |-> NoTime]

\* State has changed since the last render: the callbacks of the last render
\* (processSync, and the listeners and the interval set up with it) still hold
\* the values they were created with.
Stale ==
  /\ hook.mounted
  /\ hook.seenOnline # app.isOnline \/ hook.seenSyncing # hook.isSyncing

\* getPendingCount()
getPendingCount(q) == Cardinality(WithStatus(q, "pending"))

\* processSync() as created by the last render of hook instance h: nothing when
\* it saw offline or syncing; else isSyncing is set and processQueue is called,
\* whose getPending resolves with the snapshot.
processSync(h) ==
  IF ~h.seenOnline \/ h.seenSyncing
    THEN hook' = h /\ drain' = drain
    ELSE /\ hook' = [h EXCEPT !.isSyncing = TRUE]
         /\ \E d \in Drains :
              /\ drain[d].pc = "idle"
              /\ drain' = [drain EXCEPT ![d] =
                   Advance([IdleDrain EXCEPT !.pending = getPending(queue),
                                             !.byMounted = TRUE], 0, 0)]

\* The Settings page is opened: the first render, and the effects: the online
\* flag is read and the pending count fetched.
Mount ==
  /\ ~hook.mounted
  /\ hook' = [mounted |-> TRUE, isSyncing |-> FALSE, seenOnline |-> app.isOnline,
              seenSyncing |-> FALSE, lastSyncedAt |-> app.lastSyncedAt]
  /\ app' = [app EXCEPT !.pendingSyncCount = getPendingCount(queue)]
  /\ UNCHANGED <<client, db, uuids, queue, usedIds, now, addCall, drain>>
  /\ returned' = NoCall

\* The user leaves the Settings page: the instance and its state are gone, the
\* listeners and the interval removed; a drain it started runs on.
Unmount ==
  /\ hook.mounted
  /\ hook' = Unmounted
  /\ drain' = [d \in Drains |-> [drain[d] EXCEPT !.byMounted = FALSE]]
  /\ UNCHANGED <<client, db, uuids, queue, usedIds, now, addCall, app>>
  /\ returned' = NoCall

\* React renders again after a state change and re-runs the effects.
Render ==
  /\ Stale
  /\ hook' = [hook EXCEPT !.seenOnline = app.isOnline, !.seenSyncing = hook.isSyncing]
  /\ UNCHANGED <<client, db, uuids, queue, usedIds, now, addCall, drain, app>>
  /\ returned' = NoCall

\* The browser's offline event.
GoOffline ==
  /\ ~Stale
  /\ app.isOnline
  /\ app' = [app EXCEPT !.isOnline = FALSE]
  /\ UNCHANGED <<client, db, uuids, queue, usedIds, now, addCall, drain, hook>>
  /\ returned' = NoCall

\* The browser's online event: the store's listener, then handleOnline of the
\* last render, which calls processSync.
GoOnline ==
  /\ ~Stale
  /\ ~app.isOnline
  /\ app' = [app EXCEPT !.isOnline = TRUE]
  /\ IF hook.mounted THEN processSync(hook) ELSE hook' = hook /\ drain' = drain
  /\ UNCHANGED <<client, db, uuids, queue, usedIds, now, addCall>>
  /\ returned' = NoCall

\* The 5-minute interval, set up when the last render saw online, fires.
TimerSync ==
  /\ hook.mounted
  /\ ~Stale
  /\ hook.seenOnline
  /\ processSync(hook)
  /\ UNCHANGED <<client, db, uuids, queue, usedIds, now, addCall, app>>
  /\ returned' = NoCall

\* The Sync Now button, shown while changes are pending and online and
\* enabled while not syncing, is pressed.
ManualSync ==
  /\ hook.mounted
  /\ ~Stale
  /\ app.pendingSyncCount > 0 /\ app.isOnline
  /\ ~hook.isSyncing
  /\ processSync(hook)
  /\ UNCHANGED <<client, db, uuids, queue, usedIds, now, addCall, app>>
  /\ returned' = NoCall

\* A processSync without the finally block: isSyncing stays set.
ProcessSyncFinishStuck(d) ==
  /\ drain[d].pc = "done"
  /\ \E t \in Dates :
       /\ now' = t
       /\ app' = [app EXCEPT !.lastSyncedAt = t,
                             !.pendingSyncCount = getPendingCount(queue)]
       /\ hook' = IF drain[d].byMounted THEN [hook EXCEPT !.lastSyncedAt = t] ELSE hook
  /\ drain' = [drain EXCEPT ![d] = IdleDrain]
  /\ UNCHANGED <<client, db, uuids, queue, usedIds, addCall>>
  /\ returned' = NoCall

\* processQueue returns to processSync: the time is stored, the pending count
\* fetched, and isSyncing reset in the instance that called, if still mounted.
ProcessSyncFinish(d) ==
  /\ drain[d].pc = "done"
  /\ \E t \in Dates :
       /\ now' = t
       /\ app' = [app EXCEPT !.lastSyncedAt = t,
                             !.pendingSyncCount = getPendingCount(queue)]
       /\ hook' = IF drain[d].byMounted
                    THEN [hook EXCEPT !.isSyncing = FALSE, !.lastSyncedAt = t]
                    ELSE hook
  /\ drain' = [drain EXCEPT ![d] = IdleDrain]
  /\ UNCHANGED <<client, db, uuids, queue, usedIds, addCall>>
  /\ returned' = NoCall

\* --------------------------------------------------------- the repositories
\* templateService, inspectionService and photoService over db.templates,
\* db.inspections and db.photos. Each operation is run alone, from call to
\* return; the records keep the fields the operations read or write.
TemplateIds == {"t1", "t2"}
InspectionIds == {"i1"}
\* The inspectionId values photoService.create is called with.
PhotoOwners == {"i1", "i2"}
SectionIds == {"s1"}
ItemNames == {"it1"}
PhotoIds == {"ph1", "ph2"}
\* The photoId values addPhotoToItem and addPhotoToSection are called with.
AttachedIds == {"ph1"}
Names == {"n1", "n2"}
\* The newName arguments of duplicate; "" stands for none.
NewNames == {""}
Captions == {"c1"}
\* caption of a photo created without one.
NoCaption == "undefined"
\* The item updates and the inspection updates the pages send.
ItemUpdates == {[status |-> "ok"], [status |-> "pending"]}
InspectionUpdates == {[status |-> "in_progress"]}
\* notes of an item: the template's defaultNotes || '', then what is typed.
Notes == {"", "x"}
\* The inspection state of a page that has loaded none (null).
NoInspection == [null |-> TRUE]

\* { ...record, ...updates }
Spread(record, updates) ==
  [f \in DOMAIN record \cup DOMAIN updates |->
     IF f \in DOMAIN updates THEN updates[f] ELSE record[f]]

EmptyTable == [i \in {} |-> 0]

\* One section with one item, in the order the editor gives them.
OneSection ==
  <<[id |-> "s1", name |-> "sec", order |-> 0,
     items |-> <<[id |-> "it1", text |-> "txt", order |-> 0]>>]>>
\* The sections of the templates handed to create: none (createTemplate's
\* default).
SectionInputs == {<<>>}
\* The ids crypto.randomUUID() can hand out for the sections and the items of
\* a copy.
SectionUuids == {"s2"}
ItemUuids == {"it2"}

\* A template as the editor hands it to create.
NewTemplate(id, name, sections, t) ==
  [id |-> id, name |-> name, isActive |-> TRUE, sections |-> sections, updatedAt |-> t]

\* seedSampleTemplates: bulkPut of the sample templates (one stands for the
\* two), nothing enqueued.
SeededDb ==
  [templates |-> [id \in {"t1"} |-> NewTemplate(id, "n1", OneSection, 0)],
   inspections |-> EmptyTable,
   photos |-> EmptyTable]

\* createInspectionFromTemplate: a draft whose items are all pending.
createInspectionFromTemplate(id, itemIds, t) ==
  [id |-> id, status |-> "draft",
   sections |-> [s \in SectionIds |->
                   [items |-> [i \in itemIds |->
                                 [status |-> "pending", notes |-> "", photoIds |-> <<>>]],
                    photoIds |-> <<>>]],
   updatedAt |-> t, completedAt |-> NoTime]

\* createPhoto: a photo without annotations.
createPhoto(id, inspectionId, caption, t) ==
  [id |-> id, inspectionId |-> inspectionId, caption |-> caption,
   hasAnnotations |-> FALSE, timestamp |-> t]

\* array.includes(x)
Includes(s, x) == \E k \in DOMAIN s : s[k] = x

\* The operation evaluated new Date() as t and returns without calling add.
NotEnqueued(t) ==
  /\ now' = t
  /\ returned' = NoCall
  /\ UNCHANGED <<queue, usedIds, addCall, drain, app, hook>>

\* The operation evaluated new Date() as t and then awaits add to its return.
ThenAdd(t, action, entityType, entityId, data) ==
  /\ Add(action, entityType, entityId, data)
  /\ t <= now'

\* templateService.create(template): add throws on a stored id.
templateService_create ==
  \E id \in TemplateIds \ DOMAIN db.templates, name \in Names,
     sections \in SectionInputs :
    LET template == NewTemplate(id, name, sections, now) IN
    /\ db' = [db EXCEPT !.templates = TableAdd(@, id, template)]
    /\ ThenAdd(now, "create", "template", id, template)
    /\ UNCHANGED <<client, uuids>>

\* An update that also renames the template in the inspections made from it.
templateService_updateRenamingInspections ==
  \E id \in TemplateIds, name \in Names, t \in Dates :
    LET stored == TableUpdate(db.templates, id, [name |-> name, updatedAt |-> t]) IN
    /\ db' = [db EXCEPT !.templates = stored,
                        !.inspections =
                           [i \in DOMAIN @ |->
                              IF @[i].templateId = id
                                THEN [@[i] EXCEPT !.templateName = name] ELSE @[i]]]
    /\ IF id \in DOMAIN stored
         THEN ThenAdd(t, "update", "template", id, stored[id])
         ELSE NotEnqueued(t)
    /\ UNCHANGED <<client, uuids>>

\* templateService.update(id, updates)
templateService_update ==
  \E id \in TemplateIds, name \in Names, t \in Dates :
    LET stored == TableUpdate(db.templates, id, [name |-> name, updatedAt |-> t]) IN
    /\ db' = [db EXCEPT !.templates = stored]
    /\ IF id \in DOMAIN stored
         THEN ThenAdd(t, "update", "template", id, stored[id])
         ELSE NotEnqueued(t)
    /\ UNCHANGED <<client, uuids>>

\* templateService.softDelete(id)
templateService_softDelete ==
  \E id \in TemplateIds, t \in Dates :
    /\ db' = [db EXCEPT !.templates =
                TableUpdate(@, id, [isActive |-> FALSE, updatedAt |-> t])]
    /\ ThenAdd(t, "update", "template", id, [isActive |-> FALSE])
    /\ UNCHANGED <<client, uuids>>

\* templateService.hardDelete(id)
templateService_hardDelete ==
  \E id \in TemplateIds :
    /\ db' = [db EXCEPT !.templates = TableDelete(@, id)]
    /\ ThenAdd(now, "delete", "template", id, NoData)
    /\ UNCHANGED <<client, uuids>>

\* The name of a copy made without a new name.
CopyName(name) == name \o " (Copy)"

\* The positions of the items of the sections, as <<section, item>> pairs.
ItemPositions(sections) ==
  {<<k, j>> \in (DOMAIN sections) \X (1..MaxItems) : j \in DOMAIN sections[k].items}

\* sections.map(section => ({...section, id, items: items.map(item =>
\* ({...item, id}))})) with the ids sectionId[k] and itemId[<<k, j>>].
WithIds(sections, sectionId, itemId) ==
  [k \in DOMAIN sections |->
     [sections[k] EXCEPT
        !.id = sectionId[k],
        !.items = [j \in DOMAIN sections[k].items |->
                     [sections[k].items[j] EXCEPT !.id = itemId[<<k, j>>]]]]]

\* A duplicate whose sections and items keep the ids of the original.
templateService_duplicateSharingIds ==
  \E id \in DOMAIN db.templates, new \in TemplateIds \ (uuids \cup DOMAIN db.templates),
     newName \in NewNames, t \in Dates :
    LET original == db.templates[id]
        duplicate == [original EXCEPT
                        !.id = new,
                        !.name = IF newName # "" THEN newName ELSE CopyName(original.name),
                        !.updatedAt = t] IN
    /\ db' = [db EXCEPT !.templates = TableAdd(@, new, duplicate)]
    /\ ThenAdd(t, "create", "template", new, duplicate)
    /\ uuids' = uuids \cup {new}
    /\ UNCHANGED client

\* templateService.duplicate(id, newName): a copy under fresh ids for the
\* template, its sections and their items, created.
templateService_duplicate ==
  \E id \in DOMAIN db.templates, new \in TemplateIds \ (uuids \cup DOMAIN db.templates),
     newName \in NewNames, t \in Dates :
    LET original == db.templates[id] IN
    \E sectionId \in [DOMAIN original.sections -> SectionUuids \ uuids],
       itemId \in [ItemPositions(original.sections) -> ItemUuids \ uuids] :
      LET duplicate == [original EXCEPT
                          !.id = new,
                          !.name = IF newName # "" THEN newName
                                                   ELSE CopyName(original.name),
                          !.updatedAt = t,
                          !.sections = WithIds(@, sectionId, itemId)] IN
      /\ \A k1, k2 \in DOMAIN sectionId : sectionId[k1] = sectionId[k2] => k1 = k2
      /\ \A p1, p2 \in DOMAIN itemId : itemId[p1] = itemId[p2] => p1 = p2
      /\ db' = [db EXCEPT !.templates = TableAdd(@, new, duplicate)]
      /\ ThenAdd(t, "create", "template", new, duplicate)
      /\ uuids' = uuids \cup {new} \cup {sectionId[k] : k \in DOMAIN sectionId}
                         \cup {itemId[q] : q \in DOMAIN itemId}
      /\ UNCHANGED client

\* inspectionService.create(inspection), with an inspection made from a
\* template; add throws on a stored id.
inspectionService_create ==
  \E id \in InspectionIds \ DOMAIN db.inspections, itemIds \in SUBSET ItemNames :
    LET inspection == createInspectionFromTemplate(id, itemIds, now) IN
    /\ db' = [db EXCEPT !.inspections = TableAdd(@, id, inspection)]
    /\ ThenAdd(now, "create", "inspection", id, inspection)
    /\ UNCHANGED <<client, uuids>>

\* createInspectionFromTemplate(template, ...) with the id and the date it
\* draws: the template's id and name, and a copy of every section and item with
\* its name or text and its order, kept under the section's and the item's id.
FromTemplate(template, id, t) ==
  [id |-> id, templateId |-> template.id, templateName |-> template.name,
   status |-> "draft",
   sections |->
     [sectionId \in {template.sections[k].id : k \in DOMAIN template.sections} |->
        LET section == template.sections[CHOOSE k \in DOMAIN template.sections :
                                           template.sections[k].id = sectionId] IN
        [name |-> section.name, order |-> section.order, photoIds |-> <<>>,
         items |->
           [itemId \in {section.items[k].id : k \in DOMAIN section.items} |->
              LET item == section.items[CHOOSE k \in DOMAIN section.items :
                                          section.items[k].id = itemId] IN
              [text |-> item.text, status |-> "pending", notes |-> "",
               photoIds |-> <<>>, order |-> item.order]]]],
   updatedAt |-> t, completedAt |-> NoTime]

\* NewInspection.handleSubmit: an inspection is made from a template of the
\* page's list, the active templates, and handed to inspectionService.create.
handleSubmit ==
  \E id \in InspectionIds \ DOMAIN db.inspections,
     templateId \in {i \in DOMAIN db.templates : db.templates[i].isActive} :
    LET inspection == FromTemplate(db.templates[templateId], id, now) IN
    /\ db' = [db EXCEPT !.inspections = TableAdd(@, id, inspection)]
    /\ ThenAdd(now, "create", "inspection", id, inspection)
    /\ UNCHANGED <<client, uuids>>

\* inspectionService.update(id, updates) with new Date() read as t: what it
\* does to the store and the queue.
Update(id, updates, t) ==
  LET stored == TableUpdate(db.inspections, id, Spread(updates, [updatedAt |-> t])) IN
  /\ db' = [db EXCEPT !.inspections = stored]
  /\ IF id \in DOMAIN stored
       THEN ThenAdd(t, "update", "inspection", id, stored[id])
       ELSE NotEnqueued(t)
  /\ UNCHANGED uuids

\* inspectionService.update(id, updates)
inspectionService_update ==
  /\ \E id \in InspectionIds, updates \in InspectionUpdates, t \in Dates :
       Update(id, updates, t)
  /\ UNCHANGED client

\* inspectionService.updateItem(inspectionId, sectionId, itemId, updates) with
\* new Date() read as t: the early returns, then the merge, the move out of
\* draft, the put and the add.
UpdateItem(id, sectionId, itemId, updates, t) ==
  IF /\ id \in DOMAIN db.inspections
     /\ itemId \in DOMAIN db.inspections[id].sections[sectionId].items
    THEN LET old == db.inspections[id]
             inspection ==
               [old EXCEPT !.sections[sectionId].items[itemId] = Spread(@, updates),
                           !.status = IF @ = "draft" THEN "in_progress" ELSE @,
                           !.updatedAt = t] IN
         /\ db' = [db EXCEPT !.inspections[id] = inspection]
         /\ ThenAdd(t, "update", "inspection", id, inspection)
         /\ UNCHANGED <<client, uuids>>
    ELSE NotEnqueued(now) /\ UNCHANGED <<client, db, uuids>>

\* inspectionService.updateItem(inspectionId, sectionId, itemId, updates)
inspectionService_updateItem ==
  \E id \in InspectionIds, sectionId \in SectionIds, itemId \in ItemNames,
     updates \in ItemUpdates, t \in Dates :
    UpdateItem(id, sectionId, itemId, updates, t)

\* An addPhotoToItem that pushes the id without looking for it.
addPhotoToItemUnchecked(photoIds) ==
  \E id \in InspectionIds, sectionId \in SectionIds, itemId \in ItemNames,
     photoId \in photoIds, t \in Dates :
    IF /\ id \in DOMAIN db.inspections
       /\ itemId \in DOMAIN db.inspections[id].sections[sectionId].items
      THEN /\ db' = [db EXCEPT
                       !.inspections[id].sections[sectionId].items[itemId].photoIds =
                          Append(@, photoId),
                       !.inspections[id].updatedAt = t]
           /\ NotEnqueued(t)
           /\ UNCHANGED <<client, uuids>>
      ELSE NotEnqueued(now) /\ UNCHANGED <<client, db, uuids>>

\* inspectionService.addPhotoToItem(inspectionId, sectionId, itemId, photoId)
\* with a photo id of the given ones.
addPhotoToItem(photoIds) ==
  \E id \in InspectionIds, sectionId \in SectionIds, itemId \in ItemNames,
     photoId \in photoIds, t \in Dates :
    IF /\ id \in DOMAIN db.inspections
       /\ itemId \in DOMAIN db.inspections[id].sections[sectionId].items
       /\ ~Includes(db.inspections[id].sections[sectionId].items[itemId].photoIds, photoId)
      THEN /\ db' = [db EXCEPT
                       !.inspections[id].sections[sectionId].items[itemId].photoIds =
                          Append(@, photoId),
                       !.inspections[id].updatedAt = t]
           /\ NotEnqueued(t)
           /\ UNCHANGED <<client, uuids>>
      ELSE NotEnqueued(now) /\ UNCHANGED <<client, db, uuids>>

\* inspectionService.addPhotoToItem with the id of an attached photo.
inspectionService_addPhotoToItem == addPhotoToItem(AttachedIds)

\* inspectionService.addPhotoToSection(inspectionId, sectionId, photoId) with a
\* photo id of the given ones.
addPhotoToSection(photoIds) ==
  \E id \in InspectionIds, sectionId \in SectionIds, photoId \in photoIds, t \in Dates :
    IF /\ id \in DOMAIN db.inspections
       /\ ~Includes(db.inspections[id].sections[sectionId].photoIds, photoId)
      THEN /\ db' = [db EXCEPT
                       !.inspections[id].sections[sectionId].photoIds = Append(@, photoId),
                       !.inspections[id].updatedAt = t]
           /\ NotEnqueued(t)
           /\ UNCHANGED <<client, uuids>>
      ELSE NotEnqueued(now) /\ UNCHANGED <<client, db, uuids>>

\* inspectionService.addPhotoToSection with the id of an attached photo.
inspectionService_addPhotoToSection == addPhotoToSection(AttachedIds)

\* inspectionService.complete(id) with new Date() read as t: what it does to
\* the store and the queue.
Complete(id, t) ==
  LET stored == TableUpdate(db.inspections, id,
                  [status |-> "completed", completedAt |-> t, updatedAt |-> t]) IN
  /\ db' = [db EXCEPT !.inspections = stored]
  /\ IF id \in DOMAIN stored
       THEN ThenAdd(t, "update", "inspection", id, stored[id])
       ELSE NotEnqueued(t)
  /\ UNCHANGED uuids

\* inspectionService.complete(id)
inspectionService_complete ==
  /\ \E id \in InspectionIds, t \in Dates : Complete(id, t)
  /\ UNCHANGED client

\* A reopen that leaves completedAt as it is.
ReopenKeepingCompletedAt(id, t) ==
  LET stored == TableUpdate(db.inspections, id,
                  [status |-> "in_progress", updatedAt |-> t]) IN
  /\ db' = [db EXCEPT !.inspections = stored]
  /\ IF id \in DOMAIN stored
       THEN ThenAdd(t, "update", "inspection", id, stored[id])
       ELSE NotEnqueued(t)
  /\ UNCHANGED uuids

\* inspectionService.reopen(id) with new Date() read as t: what it does to the
\* store and the queue.
Reopen(id, t) ==
  LET stored == TableUpdate(db.inspections, id,
                  [status |-> "in_progress", completedAt |-> NoTime, updatedAt |-> t]) IN
  /\ db' = [db EXCEPT !.inspections = stored]
  /\ IF id \in DOMAIN stored
       THEN ThenAdd(t, "update", "inspection", id, stored[id])
       ELSE NotEnqueued(t)
  /\ UNCHANGED uuids

\* inspectionService.reopen(id)
inspectionService_reopen ==
  /\ \E id \in InspectionIds, t \in Dates : Reopen(id, t)
  /\ UNCHANGED client

\* db.photos.where('inspectionId').equals(inspectionId).delete()
PhotosWithout(photos, inspectionId) ==
  [id \in {p \in DOMAIN photos : photos[p].inspectionId # inspectionId} |-> photos[id]]

\* inspectionService.delete(id): the photos of the inspection, the inspection,
\* then one add for the inspection.
inspectionService_delete ==
  \E id \in InspectionIds :
    /\ db' = [db EXCEPT !.photos = PhotosWithout(@, id),
                        !.inspections = TableDelete(@, id)]
    /\ ThenAdd(now, "delete", "inspection", id, NoData)
    /\ UNCHANGED <<client, uuids>>

\* photoService.create(inspectionId, imageData, options)
photoService_create ==
  \E id \in PhotoIds \ uuids, inspectionId \in PhotoOwners :
    LET photo == createPhoto(id, inspectionId, NoCaption, now) IN
    /\ db' = [db EXCEPT !.photos = TableAdd(@, id, photo)]
    /\ uuids' = uuids \cup {id}
    /\ UNCHANGED client
    /\ ThenAdd(now, "create", "photo", id, photo)

\* photoService.update(id, updates)
photoService_update ==
  \E id \in PhotoIds, caption \in Captions :
    LET stored == TableUpdate(db.photos, id, [caption |-> caption]) IN
    /\ db' = [db EXCEPT !.photos = stored]
    /\ IF id \in DOMAIN stored
         THEN ThenAdd(now, "update", "photo", id, stored[id])
         ELSE NotEnqueued(now)
    /\ UNCHANGED <<client, uuids>>

\* photoService.saveAnnotation(id, annotatedImageData)
photoService_saveAnnotation ==
  \E id \in PhotoIds :
    LET stored == TableUpdate(db.photos, id, [hasAnnotations |-> TRUE]) IN
    /\ db' = [db EXCEPT !.photos = stored]
    /\ IF id \in DOMAIN stored
         THEN ThenAdd(now, "update", "photo", id, stored[id])
         ELSE NotEnqueued(now)
    /\ UNCHANGED <<client, uuids>>

\* photoService.updateCaption(id, caption)
photoService_updateCaption ==
  \E id \in PhotoIds, caption \in Captions :
    /\ db' = [db EXCEPT !.photos = TableUpdate(@, id, [caption |-> caption])]
    /\ NotEnqueued(now)
    /\ UNCHANGED <<client, uuids>>

\* photoService.delete(id)
photoService_delete ==
  \E id \in PhotoIds :
    /\ db' = [db EXCEPT !.photos = TableDelete(@, id)]
    /\ ThenAdd(now, "delete", "photo", id, NoData)
    /\ UNCHANGED <<client, uuids>>

\* photoService.deleteByInspection(inspectionId)
photoService_deleteByInspection ==
  \E inspectionId \in PhotoOwners :
    /\ db' = [db EXCEPT !.photos = PhotosWithout(@, inspectionId)]
    /\ NotEnqueued(now)
    /\ UNCHANGED <<client, uuids>>

\* ------------------------------------------------ the inspection detail page
\* InspectionDetail keeps a copy of the inspection in its state; its handlers
\* change the copy and save through inspectionService. A handler and the save
\* it starts are run alone, and read the clock once.

\* loadInspection(id): the stored inspection, if there is one, becomes the state.
loadInspection ==
  /\ \E id \in InspectionIds :
       page' = IF id \in DOMAIN db.inspections THEN db.inspections[id] ELSE page
  /\ NotEnqueued(now)
  /\ UNCHANGED <<db, uuids, backup, editor, flight, boot>>

\* autoSave(updatedInspection): inspectionService.update with the sections and
\* the status of the page's copy.
autoSave(updatedInspection, t) ==
  Update(updatedInspection.id,
         [sections |-> updatedInspection.sections, status |-> updatedInspection.status,
          updatedAt |-> t],
         t)

\* handleStatusChange(sectionId, itemId, status)
handleStatusChange ==
  /\ page # NoInspection
  /\ page.status # "completed"
  /\ \E sectionId \in SectionIds, itemId \in ItemNames, updates \in ItemUpdates,
        t \in Dates :
       /\ itemId \in DOMAIN page.sections[sectionId].items
       /\ LET updatedInspection ==
                [page EXCEPT !.sections[sectionId].items[itemId].status = updates.status,
                             !.status = IF @ = "draft" THEN "in_progress" ELSE @,
                             !.updatedAt = t] IN
            /\ page' = updatedInspection
            /\ autoSave(updatedInspection, t)
            /\ UNCHANGED <<backup, editor, flight, boot>>

\* handleNotesChange(sectionId, itemId, notes)
handleNotesChange ==
  /\ page # NoInspection
  /\ page.status # "completed"
  /\ \E sectionId \in SectionIds, itemId \in ItemNames, notes \in Notes, t \in Dates :
       /\ itemId \in DOMAIN page.sections[sectionId].items
       /\ LET updatedInspection ==
                [page EXCEPT !.sections[sectionId].items[itemId].notes = notes,
                             !.updatedAt = t] IN
            /\ page' = updatedInspection
            /\ autoSave(updatedInspection, t)
            /\ UNCHANGED <<backup, editor, flight, boot>>

\* handleComplete: inspectionService.complete, then the copy is marked completed.
handleComplete ==
  /\ page # NoInspection
  /\ \E t \in Dates :
       /\ Complete(page.id, t)
       /\ page' = [page EXCEPT !.status = "completed", !.completedAt = t]
       /\ UNCHANGED <<backup, editor, flight, boot>>

\* handleReopen: inspectionService.reopen, then the copy is put in progress.
handleReopen ==
  /\ page # NoInspection
  /\ \E t \in Dates :
       /\ Reopen(page.id, t)
       /\ page' = [page EXCEPT !.status = "in_progress", !.completedAt = NoTime]
       /\ UNCHANGED <<backup, editor, flight, boot>>

\* ------------------------------------------------------ export and import
\* A Date is a number of the clock; its ISO string is coded as the number 100
\* above it, past every date, so that a date and its string are never equal.
\* date.toISOString(), which JSON.stringify writes for a Date
toISOString(t) == t + 100
\* new Date(isoString)
NewDate(isoString) == isoString - 100

\* The properties that hold a Date (createdAt and startedAt are not kept in
\* the records here).
DateFields == {"updatedAt", "completedAt", "timestamp"}
\* A property whose value is undefined.
IsUndefined(record, f) ==
  \/ f = "completedAt" /\ record[f] = NoTime
  \/ f = "caption" /\ record[f] = NoCaption

\* JSON.parse(JSON.stringify(record)): undefined properties are left out and
\* every Date has become its ISO string.
stringify(record) ==
  [f \in {g \in DOMAIN record : ~IsUndefined(record, g)} |->
     IF f \in DateFields THEN toISOString(record[f]) ELSE record[f]]

\* table.toArray(), the order (by key) left out.
toArray(table) == {table[id] : id \in DOMAIN table}

\* table.bulkAdd(records) with keys that are new and differ.
bulkAdd(table, records) ==
  [id \in DOMAIN table \cup {r.id : r \in records} |->
     IF id \in DOMAIN table THEN table[id] ELSE CHOOSE r \in records : r.id = id]

\* exportAllData() with new Date() read as t: the text of the backup, given
\* by what JSON.parse makes of it. The settings table is not part of the store
\* here.
exportAllData(t) ==
  [json |-> TRUE,
   data |-> [exportedAt |-> toISOString(t), version |-> 1,
             templates |-> {stringify(r) : r \in toArray(db.templates)},
             inspections |-> {stringify(r) : r \in toArray(db.inspections)},
             photos |-> {stringify(r) : r \in toArray(db.photos)}]]

\* The value of JSON.parse("null").
JsonNull == [null |-> TRUE]
\* Texts that are not a backup: not JSON, null, and objects without version,
\* without templates, without inspections.
BadFiles ==
  {[json |-> FALSE],
   [json |-> TRUE, data |-> JsonNull],
   [json |-> TRUE, data |-> [templates |-> {}, inspections |-> {}]],
   [json |-> TRUE, data |-> [version |-> 1, inspections |-> {}]],
   [json |-> TRUE, data |-> [version |-> 1, templates |-> {}]]}

NoFile == [none |-> TRUE]
\* exported: the tables as they were when the file was written.
NoBackup == [file |-> NoFile, exported |-> NoFile]

\* The template of importData's map, its dates parsed.
reviveTemplate(t) == Spread(t, [updatedAt |-> NewDate(t.updatedAt)])

\* The inspection of importData's map: completedAt parsed if there is one,
\* undefined otherwise.
reviveInspection(i) ==
  Spread(i, [updatedAt |-> NewDate(i.updatedAt),
             completedAt |-> IF "completedAt" \in DOMAIN i
                               THEN NewDate(i.completedAt) ELSE NoTime])

\* A photo of importData's map that keeps the timestamp as it is in the file.
revivePhotoUnparsed(p) == p

\* The photo of importData's map, its timestamp parsed.
revivePhoto(p) == Spread(p, [timestamp |-> NewDate(p.timestamp)])

\* An importData that clears the tables before it looks at the data.
importDataClearingFirst(jsonString) ==
  /\ db' = [templates |-> EmptyTable, inspections |-> EmptyTable, photos |-> EmptyTable]
  /\ returned' = [op |-> "importData", success |-> FALSE,
                  message |-> "Invalid data format", input |-> jsonString]

\* importData(jsonString) and what it returns: JSON.parse and the reads of
\* data throw into the catch; a data without version, templates or
\* inspections is refused; then the three tables are cleared and filled from
\* the data.
importData(jsonString) ==
  IF ~jsonString.json \/ jsonString.data = JsonNull
    THEN /\ returned' = [op |-> "importData", success |-> FALSE,
                         message |-> "Import failed", input |-> jsonString]
         /\ UNCHANGED db
  ELSE IF \E f \in {"version", "templates", "inspections"} : f \notin DOMAIN jsonString.data
    THEN /\ returned' = [op |-> "importData", success |-> FALSE,
                         message |-> "Invalid data format", input |-> jsonString]
         /\ UNCHANGED db
  ELSE LET data == jsonString.data
           templates == {reviveTemplate(t) : t \in data.templates}
           inspections == {reviveInspection(i) : i \in data.inspections}
           photos == IF "photos" \in DOMAIN data
                       THEN {revivePhoto(p) : p \in data.photos} ELSE {}
           \* bulkAdd rejects (a ConstraintError) when two records have one key
           Clash(records) == \E r, s \in records : r # s /\ r.id = s.id
           \* what a rejected bulkAdd leaves in its table: nothing, or one
           \* record for every key
           Kept(records) ==
             {{}} \cup {S \in SUBSET records :
                         /\ \A r, s \in S : r.id = s.id => r = s
                         /\ \A r \in records : \E s \in S : s.id = r.id}
           Failed == [op |-> "importData", success |-> FALSE,
                      message |-> "Import failed", input |-> jsonString]
       IN IF Clash(templates)
            THEN /\ \E S \in Kept(templates) :
                      db' = [templates |-> bulkAdd(EmptyTable, S),
                             inspections |-> EmptyTable, photos |-> EmptyTable]
                 /\ returned' = Failed
          ELSE IF Clash(inspections)
            THEN /\ \E S \in Kept(inspections) :
                      db' = [templates |-> bulkAdd(EmptyTable, templates),
                             inspections |-> bulkAdd(EmptyTable, S),
                             photos |-> EmptyTable]
                 /\ returned' = Failed
          ELSE IF Clash(photos)
            THEN /\ \E S \in Kept(photos) :
                      db' = [templates |-> bulkAdd(EmptyTable, templates),
                             inspections |-> bulkAdd(EmptyTable, inspections),
                             photos |-> bulkAdd(EmptyTable, S)]
                 /\ returned' = Failed
          ELSE /\ db' = [templates |-> bulkAdd(EmptyTable, templates),
                         inspections |-> bulkAdd(EmptyTable, inspections),
                         photos |-> bulkAdd(EmptyTable, photos)]
               /\ returned' = [op |-> "importData", success |-> TRUE,
                               message |-> "Imported", input |-> jsonString]

\* Settings.handleExport: the backup is written to a file.
handleExport ==
  /\ backup' = [backup EXCEPT !.file = exportAllData(now), !.exported = db]
  /\ NotEnqueued(now)
  /\ UNCHANGED <<db, uuids, page, editor, flight, boot>>

\* A backup edited by hand: every template of the file is there a second time
\* under another name.
WithTemplatesTwice(file) ==
  [file EXCEPT !.data.templates =
     @ \cup {[t EXCEPT !.name = "edited"] : t \in @}]

\* Settings.handleImport: a file of the user is read, the last export or a
\* text that is no backup.
handleImport ==
  /\ \E jsonString \in BadFiles \cup ({backup.file} \ {NoFile}) : importData(jsonString)
  /\ UNCHANGED <<queue, usedIds, now, addCall, drain, app, hook, uuids, client>>

\* Settings.handleImport with the last export edited by hand.
handleImportEdited ==
  /\ \E jsonString \in {WithTemplatesTwice(f) : f \in {backup.file} \ {NoFile}} :
       importData(jsonString)
  /\ UNCHANGED <<queue, usedIds, now, addCall, drain, app, hook, uuids, client>>

\* The template editor without a template (null).
NoTemplate == [null |-> TRUE]

\* ------------------------------------------------------ the template editor
\* TemplateEditor keeps the template in its state; every handler builds the
\* next template from it and runs to its end before the next event.

\* The ids crypto.randomUUID() can hand out in the editor; an id is new when no
\* section, or no item, of the template has it.
EditorSectionIds == {"s2", "s3", "s4", "s5"}
EditorItemIds == {"it2", "it3", "it4", "it5", "it6", "it7", "it8", "it9", "it10"}
\* `Section ${n + 1}`
SectionName(n) == <<"Section 1", "Section 2", "Section 3", "Section 4">>[n + 1]

\* createSection({name, order})
createSection(id, name, order) == [id |-> id, name |-> name, items |-> <<>>, order |-> order]
\* createItem({text, order})
createItem(id, text, order) == [id |-> id, text |-> text, order |-> order]

\* array.filter(x => x.id !== id)
WithoutId(array, id) ==
  LET Keep(x) == x.id # id IN SelectSeq(array, Keep)
\* array.map((x, i) => ({...x, order: i}))
Renumbered(array) == [k \in DOMAIN array |-> [array[k] EXCEPT !.order = k - 1]]
\* array.findIndex(x => x.id === id), from 1; 0 when there is none.
FindIndex(array, id) ==
  IF \E k \in DOMAIN array : array[k].id = id
    THEN CHOOSE k \in DOMAIN array :
           array[k].id = id /\ \A j \in DOMAIN array : array[j].id = id => k <= j
    ELSE 0
\* The ids of the sections, and of the items of all sections.
SectionIdsOf(sections) == {sections[k].id : k \in DOMAIN sections}
ItemIdsOf(sections) ==
  UNION {{sections[k].items[j].id : j \in DOMAIN sections[k].items} : k \in DOMAIN sections}

\* The effect loading the editor: createTemplate() for a new template, the
\* stored template otherwise.
openEditor ==
  /\ \/ editor' = NewTemplate(CHOOSE id \in TemplateIds : id \notin DOMAIN db.templates,
                              "", <<>>, now)
     \/ \E id \in DOMAIN db.templates : editor' = db.templates[id]
  /\ NotEnqueued(now)
  /\ UNCHANGED <<db, uuids, page, backup, flight, boot>>

\* updateLocalTemplate(updates) with new Date() read as t
updateLocalTemplate(updates, t) ==
  /\ editor' = Spread(Spread(editor, updates), [updatedAt |-> t])
  /\ NotEnqueued(t)
  /\ UNCHANGED <<db, uuids, page, backup, flight, boot>>

\* updateSection(sectionId, updates)
updateSection(sectionId, updates, t) ==
  updateLocalTemplate(
    [sections |-> [k \in DOMAIN editor.sections |->
                     IF editor.sections[k].id = sectionId
                       THEN Spread(editor.sections[k], updates)
                       ELSE editor.sections[k]]], t)

\* addSection()
addSection ==
  /\ editor # NoTemplate
  /\ Len(editor.sections) < MaxItems
  /\ \E t \in Dates :
       LET newSection ==
             createSection(CHOOSE id \in EditorSectionIds :
                             id \notin SectionIdsOf(editor.sections),
                           SectionName(Len(editor.sections)), Len(editor.sections)) IN
       updateLocalTemplate([sections |-> Append(editor.sections, newSection)], t)

\* A deleteSection that leaves the order values of the sections that stay.
deleteSectionKeepingOrder ==
  /\ editor # NoTemplate
  /\ \E sectionId \in SectionIdsOf(editor.sections), t \in Dates :
       updateLocalTemplate([sections |-> WithoutId(editor.sections, sectionId)], t)

\* deleteSection(sectionId)
deleteSection ==
  /\ editor # NoTemplate
  /\ \E sectionId \in SectionIdsOf(editor.sections), t \in Dates :
       updateLocalTemplate(
         [sections |-> Renumbered(WithoutId(editor.sections, sectionId))], t)

\* moveSection(sectionId, direction): the two sections change places and every
\* section is given its position as order.
moveSection ==
  /\ editor # NoTemplate
  /\ \E sectionId \in SectionIdsOf(editor.sections), direction \in {"up", "down"},
        t \in Dates :
       LET index == FindIndex(editor.sections, sectionId)
           newIndex == IF direction = "up" THEN index - 1 ELSE index + 1 IN
       /\ index # 0
       /\ newIndex >= 1
       /\ newIndex <= Len(editor.sections)
       /\ LET newSections ==
                [k \in DOMAIN editor.sections |->
                   IF k = index THEN editor.sections[newIndex]
                   ELSE IF k = newIndex THEN editor.sections[index]
                   ELSE editor.sections[k]] IN
          updateLocalTemplate([sections |-> Renumbered(newSections)], t)

\* addItem(sectionId)
addItem ==
  /\ editor # NoTemplate
  /\ \E sectionId \in SectionIdsOf(editor.sections), t \in Dates :
       LET section == editor.sections[FindIndex(editor.sections, sectionId)]
           newItem == createItem(CHOOSE id \in EditorItemIds :
                                   id \notin ItemIdsOf(editor.sections),
                                 "", Len(section.items)) IN
       /\ Len(section.items) < MaxItems
       /\ updateSection(sectionId, [items |-> Append(section.items, newItem)], t)

\* deleteItem(sectionId, itemId)
deleteItem ==
  /\ editor # NoTemplate
  /\ \E k \in DOMAIN editor.sections, t \in Dates :
       \E j \in DOMAIN editor.sections[k].items :
         updateLocalTemplate(
           [sections |->
              [editor.sections EXCEPT
                 ![k].items = Renumbered(WithoutId(@, editor.sections[k].items[j].id))]],
           t)
\* ------------------------------------------------ item calls in flight
\* updateItem and addPhotoToItem read the inspection, change the object they
\* were given and put it back, with an await at the get, at the put and (for
\* updateItem) at the add; the steps of two calls interleave at the awaits.

\* The callers of the item calls, and a caller with no call in flight.
ItemCallers == {"u1", "u2"}
IdleItemCall == [pc |-> "idle"]
\* The items of the inspection the calls work on, and what the calls bring.
FlightItems == {"it1", "it2"}
FlightCalls ==
  {[op |-> "updateItem", updates |-> [status |-> "ok"]],
   [op |-> "updateItem", updates |-> [notes |-> "x"]],
   [op |-> "addPhotoToItem", photoId |-> "ph1"]}

\* inspectionService.create(inspection) with an inspection of two items.
createWithItems ==
  \E id \in InspectionIds \ DOMAIN db.inspections :
    LET inspection == createInspectionFromTemplate(id, FlightItems, now) IN
    /\ db' = [db EXCEPT !.inspections = TableAdd(@, id, inspection)]
    /\ ThenAdd(now, "create", "inspection", id, inspection)
    /\ UNCHANGED <<client, uuids>>

\* The call is made and db.inspections.get reads the inspection.
ItemCallGet(c) ==
  /\ flight[c].pc = "idle"
  /\ \E call \in FlightCalls, id \in InspectionIds, sectionId \in SectionIds,
        itemId \in FlightItems :
       flight' = [flight EXCEPT ![c] =
                    Spread(call,
                           [pc |-> "get", inspectionId |-> id, sectionId |-> sectionId,
                            itemId |-> itemId,
                            inspection |-> IF id \in DOMAIN db.inspections
                                             THEN db.inspections[id] ELSE NoInspection])]
  /\ NotEnqueued(now)
  /\ UNCHANGED <<db, uuids, page, backup, editor, boot>>

\* The get has returned: the early returns, then the change of the object the
\* get gave with new Date() read as t, and db.inspections.put of that object.
ItemCallPut(c) ==
  /\ flight[c].pc = "get"
  /\ LET call == flight[c] IN
     IF \/ call.inspection = NoInspection
        \/ call.itemId \notin DOMAIN call.inspection.sections[call.sectionId].items
       THEN /\ flight' = [flight EXCEPT ![c] = IdleItemCall]
            /\ NotEnqueued(now)
            /\ UNCHANGED db
     ELSE IF call.op = "updateItem"
       THEN \E t \in Dates :
            LET inspection ==
                  [call.inspection EXCEPT
                     !.sections[call.sectionId].items[call.itemId] =
                        Spread(@, call.updates),
                     !.status = IF @ = "draft" THEN "in_progress" ELSE @,
                     !.updatedAt = t] IN
            /\ db' = [db EXCEPT !.inspections =
                        [i \in DOMAIN @ \cup {call.inspectionId} |->
                           IF i = call.inspectionId THEN inspection ELSE @[i]]]
            /\ flight' = [flight EXCEPT ![c] =
                            [call EXCEPT !.pc = "put", !.inspection = inspection]]
            /\ NotEnqueued(t)
     ELSE IF Includes(call.inspection.sections[call.sectionId].items[call.itemId].photoIds,
                      call.photoId)
       THEN /\ flight' = [flight EXCEPT ![c] = IdleItemCall]
            /\ NotEnqueued(now)
            /\ UNCHANGED db
     ELSE \E t \in Dates :
          LET inspection ==
                [call.inspection EXCEPT
                   !.sections[call.sectionId].items[call.itemId].photoIds =
                      Append(@, call.photoId),
                   !.updatedAt = t] IN
          /\ db' = [db EXCEPT !.inspections =
                      [i \in DOMAIN @ \cup {call.inspectionId} |->
                         IF i = call.inspectionId THEN inspection ELSE @[i]]]
          /\ flight' = [flight EXCEPT ![c] =
                          [call EXCEPT !.pc = "returned", !.inspection = inspection]]
          /\ NotEnqueued(t)
  /\ UNCHANGED <<uuids, page, backup, editor, boot>>

\* The put of updateItem has returned: syncQueueService.add with the object,
\* and the call returns.
ItemCallAdd(c) ==
  /\ flight[c].pc = "put"
  /\ ThenAdd(now, "update", "inspection", flight[c].inspectionId, flight[c].inspection)
  /\ flight' = [flight EXCEPT ![c].pc = "returned"]
  /\ UNCHANGED <<db, uuids, page, backup, editor, boot>>


\* ----------------------------------------------------------------- init
\* The callers of initializeDatabase: useDatabase's effect, which runs once
\* per mount.
Booters == {"b1", "b2"}
\* No initializeDatabase call in this slot.
IdleBoot == [pc |-> "idle", existingSettings |-> FALSE, templateCount |-> 0]
\* The store once initializeDatabase has run: the settings record 'main'.
Booted == [settings |-> {"main"}, call |-> [c \in Booters |-> IdleBoot]]

Init ==
  /\ queue = EmptyQueue
  /\ usedIds = {}
  /\ now = 0
  /\ addCall = [c \in AddCallers |-> IdleCall]
  /\ drain = [d \in Drains |-> IdleDrain]
  /\ app = [isOnline |-> TRUE, pendingSyncCount |-> 0, lastSyncedAt |-> NoTime]
  /\ hook = Unmounted
  /\ returned = NoCall
  /\ db = SeededDb
  /\ uuids = {}
  /\ page = NoInspection
  /\ backup = NoBackup
  /\ editor = NoTemplate
  /\ flight = [c \in ItemCallers |-> IdleItemCall]
  /\ boot = Booted

\* No call is suspended at an await.
Quiet ==
  /\ \A c \in AddCallers : addCall[c].pc = "idle"
  /\ \A d \in Drains : drain[d].pc = "idle"

\* ------------------------------------------- add calls one after another
\* One caller is enough where calls do not overlap.
SeqCallers == {"a1"}

NextAddOnly == Quiet /\ AddAlone(AddArgs, Entities)

SpecAddOnly == Init /\ [][NextAddOnly]_vars

\* ------------------------------ the queue's operations one after another
SeqDrains == {"p1"}

Next ==
  \/ Quiet /\ AddAlone(AddArgs, Entities)
  \/ \E d \in SeqDrains : Quiet /\ ProcessQueueStart(d)
  \/ \E d \in SeqDrains : ItemSynced(d)
  \/ \E d \in SeqDrains : ItemFailed(d)
  \/ \E d \in SeqDrains : ProcessQueueReturn(d)
  \/ Quiet /\ MarkSynced
  \/ Quiet /\ MarkFailed
  \/ Quiet /\ RetryFailed
  \/ Quiet /\ ClearSynced

Spec == Init /\ [][Next]_vars

\* ---------------------- batches of new entities and drains, one at a time
\* The arguments of the add that follows the creation of an entity.
CreateArgs == {<<"create", [payload |-> "d1"]>>}

NextDrain ==
  \/ Quiet /\ AddAlone(CreateArgs, Entities)
  \/ \E d \in SeqDrains : Quiet /\ ProcessQueueStart(d)
  \/ \E d \in SeqDrains : ItemSynced(d)
  \/ \E d \in SeqDrains : ItemFailed(d)
  \/ \E d \in SeqDrains : ProcessQueueReturn(d)
  \/ Quiet /\ RetryFailed

SpecDrain == Init /\ [][NextDrain]_vars

\* ------------------- two add calls for one entity, interleaved at their awaits
\* The callers work on one entity.
SameEntity == {<<"inspection", "e1">>}

NextAdds ==
  \/ \E c \in AddCallers : AddLookup(c, SameEntity)
  \/ \E c \in AddCallers : AddUpdate(c)
  \/ \E c \in AddCallers : AddInsert(c)

SpecAdds == Init /\ [][NextAdds]_vars

\* ------------------------- add calls and a drain, interleaved at their awaits
NextConc ==
  \/ \E c \in SeqCallers : AddLookup(c, SameEntity)
  \/ \E c \in SeqCallers : AddUpdate(c)
  \/ \E c \in SeqCallers : AddInsert(c)
  \/ \E d \in SeqDrains : ProcessQueueStart(d)
  \/ \E d \in SeqDrains : ItemSynced(d)
  \/ \E d \in SeqDrains : ItemFailed(d)
  \/ \E d \in SeqDrains : ProcessQueueReturn(d)

SpecConc == Init /\ [][NextConc]_vars

\* --------------------------- the Settings page, its sync triggers and drains
NextHook ==
  \/ Mount
  \/ Unmount
  \/ Render
  \/ GoOffline
  \/ GoOnline
  \/ TimerSync
  \/ ManualSync
  \/ \E d \in Drains : ItemSynced(d)
  \/ \E d \in Drains : ItemFailed(d)
  \/ \E d \in Drains : ProcessSyncFinish(d)
  \/ Quiet /\ AddAlone(CreateArgs, SameEntity)

SpecHook == Init /\ [][NextHook]_vars

\* ------- the whole service, updateStatus and clearAll included, one at a time
NextStatus ==
  \/ Quiet /\ AddAlone(CreateArgs, Entities)
  \/ Quiet /\ UpdateStatus
  \/ \E d \in SeqDrains : Quiet /\ ProcessQueueStart(d)
  \/ \E d \in SeqDrains : ItemSynced(d)
  \/ \E d \in SeqDrains : ItemFailed(d)
  \/ \E d \in SeqDrains : ProcessQueueReturn(d)
  \/ Quiet /\ RetryFailed
  \/ Quiet /\ ClearSynced
  \/ Quiet /\ ClearAll

SpecStatus == Init /\ [][NextStatus]_vars

\* ================================================================ claims
\* C1 (SpecAddOnly): when add calls run one after another from an empty queue,
\* every item is pending, no entity has more than one pending item, and the
\* entity of the add that has just returned has exactly one.
C1_OnePendingAfterAdds ==
  /\ \A id \in DOMAIN queue : queue[id].status = "pending"
  /\ \A e \in Entities :
       Cardinality({id \in DOMAIN queue : /\ queue[id].entityType = e[1]
                                          /\ queue[id].entityId = e[2]}) <= 1
  /\ returned.op = "add" =>
       Cardinality({id \in DOMAIN queue : /\ queue[id].entityType = returned.entityType
                                          /\ queue[id].entityId = returned.entityId
                                          /\ queue[id].status = "pending"}) = 1

\* An add has returned that found its entity's pending item and merged into it,
\* while the other entity has a pending item of its own.
C1_Witness ==
  /\ returned.op = "add"
  /\ returned.existing # NoItem
  /\ Cardinality(DOMAIN queue) = 2
  /\ \A id \in DOMAIN queue : queue[id].status = "pending"

\* C2 (Spec): in every state reached by completed add, processQueue,
\* markSynced, markFailed, retryFailed and clearSynced calls, no entity has more
\* than one pending item.
C2_AtMostOnePending ==
  Quiet =>
    \A e \in Entities :
      Cardinality({id \in DOMAIN queue : /\ queue[id].entityType = e[1]
                                         /\ queue[id].entityId = e[2]
                                         /\ queue[id].status = "pending"}) <= 1

\* C3 (SpecAdds): however two add calls for one entity interleave at their
\* awaits, no two distinct pending items are for the same entity.
C3_NoDuplicateFromInterleavedAdds ==
  \A i, j \in DOMAIN queue :
    (/\ i # j
     /\ queue[i].status = "pending"
     /\ queue[j].status = "pending"
     /\ queue[i].entityType = queue[j].entityType)
    => queue[i].entityId # queue[j].entityId

\* C4 (Spec): when add(delete) has returned after finding a pending item of
\* its entity, that entity has a single pending item, with action delete and
\* no data.
C4_DeleteLeavesSingleDelete ==
  (returned.op = "add" /\ returned.action = "delete" /\ returned.existing # NoItem) =>
    LET items == {id \in DOMAIN queue : /\ queue[id].entityType = returned.entityType
                                        /\ queue[id].entityId = returned.entityId
                                        /\ queue[id].status = "pending"}
    IN /\ Cardinality(items) = 1
       /\ \A id \in items : queue[id].action = "delete" /\ queue[id].data = NoData

\* C5 (Spec): a step in which add(update, d) runs from call to return leaves
\* every item that was a pending create item of its entity in the table with
\* action create and data d, and returns that item's id.
C5_UpdateKeepsCreate ==
  [][(returned'.op = "add" /\ returned'.action = "update") =>
       \A id \in DOMAIN queue :
         (/\ queue[id].entityType = returned'.entityType
          /\ queue[id].entityId = returned'.entityId
          /\ queue[id].status = "pending"
          /\ queue[id].action = "create")
         => /\ id \in DOMAIN queue'
            /\ queue'[id].action = "create"
            /\ queue'[id].data = returned'.data
            /\ returned'.id = id]_vars

\* C6 (SpecConc): when a drain reaches its return, the data of the latest add
\* that was called and returned during the drain is in a pending item of its
\* entity or in an item the drain took from its snapshot and handed to the
\* remote.
C6_AddDuringDrainNotLost ==
  \A d \in Drains :
    (drain[d].pc = "done" /\ drain[d].arrived # <<>>) =>
      LET a == drain[d].arrived[1] IN
      \/ \E id \in DOMAIN queue : /\ queue[id].entityType = a.entityType
                                  /\ queue[id].entityId = a.entityId
                                  /\ queue[id].status = "pending"
                                  /\ queue[id].data = a.data
      \/ \E j \in 1..Len(drain[d].pending) :
           /\ drain[d].pending[j].entityType = a.entityType
           /\ drain[d].pending[j].entityId = a.entityId
           /\ drain[d].pending[j].data = a.data

\* C7 (SpecHook): of the drains started through processSync, at most one is
\* in flight, that is, between taking its snapshot and the end of its loop.
C7_OneDrainInFlight ==
  Cardinality({d \in Drains : drain[d].pc = "loop"}) <= 1

\* C8 (SpecDrain): when a drain over a snapshot of N items reaches its return,
\* success + failed = N, every item of the snapshot has been removed or is
\* stored with status failed, success counts the removed ones and failed the
\* others: no failure ended the loop.
C8_DrainContinuesPastFailure ==
  \A d \in Drains :
    drain[d].pc = "done" =>
      LET ids == {drain[d].pending[j].id : j \in 1..Len(drain[d].pending)}
          kept == ids \cap DOMAIN queue
      IN /\ drain[d].success + drain[d].failed = Len(drain[d].pending)
         /\ \A id \in kept : queue[id].status = "failed"
         /\ drain[d].failed = Cardinality(kept)
         /\ drain[d].success = Cardinality(ids \ kept)

\* A drain is at its return whose first item failed and whose second item was
\* synced after it.
C8_Witness ==
  \E d \in Drains :
    /\ drain[d].pc = "done"
    /\ Len(drain[d].pending) = 2
    /\ drain[d].success = 1
    /\ drain[d].failed = 1
    /\ drain[d].pending[1].id \in DOMAIN queue
    /\ queue[drain[d].pending[1].id].status = "failed"
    /\ drain[d].pending[2].id \notin DOMAIN queue

\* C9 (Spec): while a drain waits for the remote call of an item, the item is
\* stored with status syncing, so that its removal or its failure starts from
\* syncing and not from pending.
C9_SyncingDuringRemoteCall ==
  \A d \in Drains :
    drain[d].pc = "loop" =>
      LET id == drain[d].pending[drain[d].i].id IN
      id \in DOMAIN queue /\ queue[id].status = "syncing"

\* C10 (SpecStatus): the step in which a drain starts puts every item stored
\* with status syncing back to pending and takes it into the drain's snapshot.
C10_StaleSyncingReset ==
  [][\A d \in Drains :
       (drain[d].pc = "idle" /\ drain'[d].pc # "idle") =>
         \A id \in DOMAIN queue :
           queue[id].status = "syncing" =>
             /\ id \in DOMAIN queue'
             /\ queue'[id].status = "pending"
             /\ \E j \in 1..Len(drain'[d].pending) : drain'[d].pending[j].id = id]_vars

\* C13 (SpecDrain): in every state reached through add, processQueue (with
\* its markSynced and markFailed) and retryFailed, no stored item has status
\* synced and the items a drain has counted as succeeded are gone; and an id
\* that was handed out and is no longer in the queue never comes back.
C13_SyncedItemsAreRemoved ==
  /\ [](/\ \A id \in DOMAIN queue : queue[id].status # "synced"
        /\ \A d \in Drains :
             drain[d].pc = "done" =>
               drain[d].success =
                 Cardinality({j \in 1..Len(drain[d].pending) :
                                drain[d].pending[j].id \notin DOMAIN queue}))
  /\ [][\A id \in usedIds \ DOMAIN queue : id \notin DOMAIN queue']_vars

\* A drain is at its return having synced an item, which is gone, and a later
\* add for the same entity has not been made: the queue is empty.
C13_Witness ==
  \E d \in Drains :
    /\ drain[d].pc = "done"
    /\ drain[d].success = 1
    /\ Len(drain[d].pending) = 1
    /\ drain[d].pending[1].id \in usedIds
    /\ queue = EmptyQueue

\* C14 (SpecConc): a step other than a retryFailed call leaves every stored
\* item with status failed in the queue and unchanged: neither add nor
\* processQueue changes or removes it.
C14_FailedLeftAlone ==
  [][\/ queue' = [id \in DOMAIN queue |->
                    IF queue[id].status = "failed"
                      THEN [queue[id] EXCEPT !.status = "pending", !.retryCount = 0]
                      ELSE queue[id]]
     \/ \A id \in DOMAIN queue :
          queue[id].status = "failed" => (id \in DOMAIN queue' /\ queue'[id] = queue[id])]_vars

\* C15 (SpecDrain): a retryFailed call keeps the set of stored items, turns
\* every failed item into a pending item with retryCount 0 and the same action,
\* entityType, entityId, data and createdAt, and leaves every other item as it
\* was.
C15_RetryFailedFrame ==
  [][RetryFailed =>
       /\ DOMAIN queue' = DOMAIN queue
       /\ \A id \in DOMAIN queue :
            IF queue[id].status = "failed"
              THEN /\ queue'[id].status = "pending"
                   /\ queue'[id].retryCount = 0
                   /\ queue'[id].action = queue[id].action
                   /\ queue'[id].entityType = queue[id].entityType
                   /\ queue'[id].entityId = queue[id].entityId
                   /\ queue'[id].data = queue[id].data
                   /\ queue'[id].createdAt = queue[id].createdAt
              ELSE queue'[id] = queue[id]]_vars

\* An item that failed with an error message, which counted an attempt, is
\* pending with retryCount 0 (only retryFailed resets the count), next to a
\* pending item that never failed.
C15_Witness ==
  \E i, j \in DOMAIN queue :
    /\ queue[i].status = "pending"
    /\ queue[i].lastError = "net"
    /\ queue[i].retryCount = 0
    /\ queue[j].status = "pending"
    /\ queue[j].lastAttemptAt = NoTime

\* C16 (SpecDrain): a drain's snapshot is in ascending createdAt order and is
\* processed one item at a time in that order: while the drain waits on item
\* i, every earlier item of the snapshot has been removed or marked failed and
\* item i and every later one is still stored as pending; at the return every
\* item has been processed.
C16_FifoOneAtATime ==
  \A d \in Drains :
    drain[d].pc # "idle" =>
      LET p == drain[d].pending
          processed(j) == \/ p[j].id \notin DOMAIN queue
                          \/ queue[p[j].id].status = "failed"
          waiting(j) == p[j].id \in DOMAIN queue /\ queue[p[j].id].status = "pending"
      IN /\ \A j, k \in 1..Len(p) : j < k => p[j].createdAt <= p[k].createdAt
         /\ \A j \in 1..Len(p) :
              IF j < drain[d].i THEN processed(j) ELSE waiting(j)

\* A drain waits on its second item, created later than the first but stored
\* under a lesser id, after the first item has been processed.
C16_Witness ==
  \E d \in Drains :
    /\ drain[d].pc = "loop"
    /\ drain[d].i = 2
    /\ drain[d].pending[1].createdAt < drain[d].pending[2].createdAt
    /\ drain[d].pending[1].id > drain[d].pending[2].id
    /\ drain[d].pending[1].id \notin DOMAIN queue

\* ---- the Settings page stays open and online, and the remote call succeeds
NextLive ==
  \/ Mount
  \/ Render
  \/ TimerSync
  \/ ManualSync
  \/ \E d \in Drains : ItemSynced(d)
  \/ \E d \in Drains : ProcessSyncFinish(d)
  \/ Quiet /\ AddAlone(CreateArgs, Entities)

\* The page is opened, React renders after a state change, the interval keeps
\* firing, and the awaited steps of a drain complete.
FairLive ==
  /\ WF_vars(Mount)
  /\ WF_vars(Render)
  /\ WF_vars(TimerSync)
  /\ \A d \in Drains : WF_vars(ItemSynced(d)) /\ WF_vars(ProcessSyncFinish(d))

SpecLive == Init /\ [][NextLive]_vars /\ FairLive

\* C17 (SpecLive): with the interval firing, the page online and the remote
\* call succeeding, a queue that holds a pending item comes to hold none.
C17_PendingEventuallyDrained ==
  (\E id \in DOMAIN queue : queue[id].status = "pending")
    ~> (\A id \in DOMAIN queue : queue[id].status # "pending")

\* A drain started by the hook is at its return with two synced items and an
\* empty queue.
C17_Witness ==
  \E d \in Drains :
    /\ drain[d].pc = "done"
    /\ drain[d].byMounted
    /\ drain[d].success = 2
    /\ queue = EmptyQueue

\* ------------------------- the template repository and drains, one at a time
NextTemplates ==
  \/ Quiet /\ templateService_create
  \/ Quiet /\ templateService_update
  \/ Quiet /\ templateService_softDelete
  \/ Quiet /\ templateService_hardDelete
  \/ Quiet /\ templateService_duplicate
  \/ \E d \in SeqDrains : Quiet /\ ProcessQueueStart(d)
  \/ \E d \in SeqDrains : ItemSynced(d)
  \/ \E d \in SeqDrains : ProcessQueueReturn(d)

SpecTemplates == Init /\ [][NextTemplates]_vars

\* ---- the inspection repository, photos taken and deleted, and drains, one
\* at a time
NextInspections ==
  \/ Quiet /\ inspectionService_create
  \/ Quiet /\ inspectionService_update
  \/ Quiet /\ inspectionService_updateItem
  \/ Quiet /\ inspectionService_addPhotoToItem
  \/ Quiet /\ inspectionService_addPhotoToSection
  \/ Quiet /\ inspectionService_complete
  \/ Quiet /\ inspectionService_reopen
  \/ Quiet /\ inspectionService_delete
  \/ Quiet /\ photoService_create
  \/ Quiet /\ photoService_delete
  \/ \E d \in SeqDrains : Quiet /\ ProcessQueueStart(d)
  \/ \E d \in SeqDrains : ItemSynced(d)
  \/ \E d \in SeqDrains : ProcessQueueReturn(d)

SpecInspections == Init /\ [][NextInspections]_vars

\* ---------------------------- the photo repository and drains, one at a time
NextPhotos ==
  \/ Quiet /\ photoService_create
  \/ Quiet /\ photoService_update
  \/ Quiet /\ photoService_saveAnnotation
  \/ Quiet /\ photoService_updateCaption
  \/ Quiet /\ photoService_delete
  \/ Quiet /\ photoService_deleteByInspection
  \/ \E d \in SeqDrains : Quiet /\ ProcessQueueStart(d)
  \/ \E d \in SeqDrains : ItemSynced(d)
  \/ \E d \in SeqDrains : ProcessQueueReturn(d)

SpecPhotos == Init /\ [][NextPhotos]_vars

\* C11: every step that creates, changes or removes a stored template,
\* inspection or photo leaves a pending queue item for that entity.
C11_ChangeLeavesPendingItem ==
  [][/\ \A id \in DOMAIN db.templates \cup DOMAIN db'.templates :
          (\/ (id \in DOMAIN db.templates) # (id \in DOMAIN db'.templates)
           \/ /\ id \in DOMAIN db.templates \cap DOMAIN db'.templates
              /\ db.templates[id] # db'.templates[id])
          => \E q \in DOMAIN queue' : /\ queue'[q].entityType = "template"
                                      /\ queue'[q].entityId = id
                                      /\ queue'[q].status = "pending"
     /\ \A id \in DOMAIN db.inspections \cup DOMAIN db'.inspections :
          (\/ (id \in DOMAIN db.inspections) # (id \in DOMAIN db'.inspections)
           \/ /\ id \in DOMAIN db.inspections \cap DOMAIN db'.inspections
              /\ db.inspections[id] # db'.inspections[id])
          => \E q \in DOMAIN queue' : /\ queue'[q].entityType = "inspection"
                                      /\ queue'[q].entityId = id
                                      /\ queue'[q].status = "pending"
     /\ \A id \in DOMAIN db.photos \cup DOMAIN db'.photos :
          (\/ (id \in DOMAIN db.photos) # (id \in DOMAIN db'.photos)
           \/ /\ id \in DOMAIN db.photos \cap DOMAIN db'.photos
              /\ db.photos[id] # db'.photos[id])
          => \E q \in DOMAIN queue' : /\ queue'[q].entityType = "photo"
                                      /\ queue'[q].entityId = id
                                      /\ queue'[q].status = "pending"]_vars

\* C12: when a repository's add of a create or an update returns, the data of
\* the queue item it wrote is the whole record as stored at that moment.
C12_EnqueuedDataIsStoredRecord ==
  [][(returned'.op = "add" /\ returned'.action \in {"create", "update"}) =>
       /\ returned'.id \in DOMAIN queue'
       /\ returned'.entityType = "template" =>
            /\ returned'.entityId \in DOMAIN db'.templates
            /\ queue'[returned'.id].data = db'.templates[returned'.entityId]
       /\ returned'.entityType = "inspection" =>
            /\ returned'.entityId \in DOMAIN db'.inspections
            /\ queue'[returned'.id].data = db'.inspections[returned'.entityId]
       /\ returned'.entityType = "photo" =>
            /\ returned'.entityId \in DOMAIN db'.photos
            /\ queue'[returned'.id].data = db'.photos[returned'.entityId]]_vars

\* ----- inspections created, saved and deleted, photos taken, and drains whose
\* remote calls may fail, one at a time
NextInspectionRetry ==
  \/ Quiet /\ inspectionService_create
  \/ Quiet /\ inspectionService_update
  \/ Quiet /\ inspectionService_delete
  \/ Quiet /\ photoService_create
  \/ \E d \in SeqDrains : Quiet /\ ProcessQueueStart(d)
  \/ \E d \in SeqDrains : ItemSynced(d)
  \/ \E d \in SeqDrains : ItemFailed(d)
  \/ \E d \in SeqDrains : ProcessQueueReturn(d)
  \/ Quiet /\ RetryFailed

SpecInspectionRetry == Init /\ [][NextInspectionRetry]_vars

\* C18: when inspectionService.delete(id) returns, the inspection is not
\* stored, no stored photo has that inspectionId, the photos of other
\* inspections are as before, and the queue holds exactly one pending item for
\* the inspection, a delete without data.
C18_DeleteCascades ==
  [][(/\ returned'.op = "add"
      /\ returned'.action = "delete"
      /\ returned'.entityType = "inspection") =>
       /\ returned'.entityId \notin DOMAIN db'.inspections
       /\ \A p \in DOMAIN db'.photos : db'.photos[p].inspectionId # returned'.entityId
       /\ \A p \in DOMAIN db.photos :
            db.photos[p].inspectionId # returned'.entityId =>
              p \in DOMAIN db'.photos /\ db'.photos[p] = db.photos[p]
       /\ Cardinality({q \in DOMAIN queue' :
                         /\ queue'[q].entityType = "inspection"
                         /\ queue'[q].entityId = returned'.entityId
                         /\ queue'[q].status = "pending"}) = 1
       /\ \A q \in DOMAIN queue' :
            (/\ queue'[q].entityType = "inspection"
             /\ queue'[q].entityId = returned'.entityId
             /\ queue'[q].status = "pending") =>
              queue'[q].action = "delete" /\ queue'[q].data = NoData]_vars

\* C19: when photoService.delete(photoId) of a stored photo returns, no stored
\* inspection lists photoId among the photoIds of a section or of an item.
C19_DeleteLeavesNoReference ==
  [][(/\ returned'.op = "add"
      /\ returned'.action = "delete"
      /\ returned'.entityType = "photo"
      /\ returned'.entityId \in DOMAIN db.photos) =>
       \A i \in DOMAIN db'.inspections :
         \A s \in DOMAIN db'.inspections[i].sections :
           /\ \A k \in DOMAIN db'.inspections[i].sections[s].photoIds :
                db'.inspections[i].sections[s].photoIds[k] # returned'.entityId
           /\ \A item \in DOMAIN db'.inspections[i].sections[s].items :
                \A k \in DOMAIN db'.inspections[i].sections[s].items[item].photoIds :
                  db'.inspections[i].sections[s].items[item].photoIds[k]
                    # returned'.entityId]_vars

\* C20: a step takes a stored inspection to status completed only if the
\* inspection has at least one item and none of its items is pending.
C20_CompletedOnlyWhenItemsDone ==
  [][\A i \in DOMAIN db.inspections \cap DOMAIN db'.inspections :
       (/\ db.inspections[i].status # "completed"
        /\ db'.inspections[i].status = "completed") =>
         /\ \E s \in DOMAIN db.inspections[i].sections :
              DOMAIN db.inspections[i].sections[s].items # {}
         /\ \A s \in DOMAIN db.inspections[i].sections :
              \A item \in DOMAIN db.inspections[i].sections[s].items :
                db.inspections[i].sections[s].items[item].status # "pending"]_vars

\* --------- the detail page over one inspection and updateItem, one at a time
NextDetail ==
  \/ Quiet /\ inspectionService_create
  \/ Quiet /\ inspectionService_updateItem
  \/ Quiet /\ loadInspection
  \/ Quiet /\ handleStatusChange
  \/ Quiet /\ handleNotesChange
  \/ Quiet /\ handleComplete
  \/ Quiet /\ handleReopen

SpecDetail == Init /\ [][NextDetail]_vars

\* C21: a step that changes the stored status or notes of an item of a stored
\* inspection leaves that inspection in a status other than draft.
C21_ItemChangeLeavesDraft ==
  [][\A i \in DOMAIN db.inspections \cap DOMAIN db'.inspections :
       (\E s \in DOMAIN db.inspections[i].sections :
          \E item \in DOMAIN db.inspections[i].sections[s].items
                        \cap DOMAIN db'.inspections[i].sections[s].items :
            \/ db.inspections[i].sections[s].items[item].status
                 # db'.inspections[i].sections[s].items[item].status
            \/ db.inspections[i].sections[s].items[item].notes
                 # db'.inspections[i].sections[s].items[item].notes)
         => db'.inspections[i].status # "draft"]_vars

\* ------- an inspection created, filled in, completed, reopened and deleted,
\* and drains, one at a time
NextLifecycle ==
  \/ Quiet /\ inspectionService_create
  \/ Quiet /\ inspectionService_updateItem
  \/ Quiet /\ inspectionService_complete
  \/ Quiet /\ inspectionService_reopen
  \/ Quiet /\ inspectionService_delete
  \/ \E d \in SeqDrains : Quiet /\ ProcessQueueStart(d)
  \/ \E d \in SeqDrains : ItemSynced(d)
  \/ \E d \in SeqDrains : ProcessQueueReturn(d)

SpecLifecycle == Init /\ [][NextLifecycle]_vars

\* C22: a stored inspection has completedAt set exactly when its status is
\* completed.
C22_CompletedAtIffCompleted ==
  \A i \in DOMAIN db.inspections :
    (db.inspections[i].completedAt # NoTime) <=> (db.inspections[i].status = "completed")

\* An inspection without items is in progress again: it was completed and
\* reopened (updateItem returns early on it).
C22_Witness ==
  \E i \in DOMAIN db.inspections :
    /\ \A s \in DOMAIN db.inspections[i].sections :
         DOMAIN db.inspections[i].sections[s].items = {}
    /\ db.inspections[i].status = "in_progress"
    /\ db.inspections[i].completedAt = NoTime
    /\ returned.op = "add"
    /\ returned.data = db.inspections[i]

\* C23: a repository mutation other than create, called with an id that is
\* not in its table, changes neither the tables nor the queue: no add for such
\* an id returns with the tables or the queue changed.
C23_MissingIdIsNoOp ==
  [][(/\ returned'.op = "add"
      /\ returned'.action # "create"
      /\ \/ returned'.entityType = "template" /\ returned'.entityId \notin DOMAIN db.templates
         \/ returned'.entityType = "inspection"
              /\ returned'.entityId \notin DOMAIN db.inspections
         \/ returned'.entityType = "photo" /\ returned'.entityId \notin DOMAIN db.photos)
       => db' = db /\ queue' = queue]_vars

\* ------------------- templates created, renamed, copied and deleted, one at
\* a time
NextDuplicate ==
  \/ Quiet /\ templateService_create
  \/ Quiet /\ templateService_update
  \/ Quiet /\ templateService_hardDelete
  \/ Quiet /\ templateService_duplicate

SpecDuplicate == Init /\ [][NextDuplicate]_vars

\* C24: when templateService.duplicate returns, a template is stored under a
\* new id; its sections and items have, position by position, the names,
\* texts and order values of a template stored before, and ids that the
\* original does not use; the templates stored before are unchanged; and the
\* queue holds a pending create item for the new id with the copy as data.
C24_DuplicateIsFreshCopy ==
  [][(returned'.op = "add" /\ returned'.entityType = "template" /\ uuids' # uuids) =>
       /\ returned'.entityId \notin DOMAIN db.templates
       /\ returned'.entityId \in DOMAIN db'.templates
       /\ \A o \in DOMAIN db.templates :
            o \in DOMAIN db'.templates /\ db'.templates[o] = db.templates[o]
       /\ \E o \in DOMAIN db.templates :
            /\ Len(db'.templates[returned'.entityId].sections) = Len(db.templates[o].sections)
            /\ \A k \in DOMAIN db.templates[o].sections :
                 /\ db'.templates[returned'.entityId].sections[k].name
                      = db.templates[o].sections[k].name
                 /\ db'.templates[returned'.entityId].sections[k].order
                      = db.templates[o].sections[k].order
                 /\ Len(db'.templates[returned'.entityId].sections[k].items)
                      = Len(db.templates[o].sections[k].items)
                 /\ \A j \in DOMAIN db.templates[o].sections[k].items :
                      /\ db'.templates[returned'.entityId].sections[k].items[j].text
                           = db.templates[o].sections[k].items[j].text
                      /\ db'.templates[returned'.entityId].sections[k].items[j].order
                           = db.templates[o].sections[k].items[j].order
                 /\ \A k2 \in DOMAIN db.templates[o].sections :
                      /\ db'.templates[returned'.entityId].sections[k].id
                           # db.templates[o].sections[k2].id
                      /\ \A j \in DOMAIN db.templates[o].sections[k].items :
                           \A j2 \in DOMAIN db.templates[o].sections[k2].items :
                             db'.templates[returned'.entityId].sections[k].items[j].id
                               # db.templates[o].sections[k2].items[j2].id
       /\ \E q \in DOMAIN queue' :
            /\ queue'[q].entityType = "template"
            /\ queue'[q].entityId = returned'.entityId
            /\ queue'[q].action = "create"
            /\ queue'[q].status = "pending"
            /\ queue'[q].data = db'.templates[returned'.entityId]]_vars

\* duplicate has just returned with a copy that has a section and an item.
C24_Witness ==
  /\ returned.op = "add"
  /\ returned.entityType = "template"
  /\ returned.entityId \in uuids
  /\ returned.entityId \in DOMAIN db.templates
  /\ \E k \in DOMAIN db.templates[returned.entityId].sections :
       /\ db.templates[returned.entityId].sections[k].id \in SectionUuids
       /\ \E j \in DOMAIN db.templates[returned.entityId].sections[k].items :
            db.templates[returned.entityId].sections[k].items[j].id \in ItemUuids

\* ------------------------------------------------------ export and import
\* Records are made and changed, the store is exported, and files are
\* imported.
NextBackup ==
  \/ inspectionService_create
  \/ inspectionService_complete
  \/ photoService_create
  \/ handleExport
  \/ handleImport

SpecBackup == Init /\ [][NextBackup]_vars

\* C25: an import of the file the last export wrote succeeds and leaves in
\* templates, inspections and photos exactly the records that were exported:
\* the same ids, and in every record the same values, the dates equal as
\* dates, an undefined property read as undefined.
C25_ExportImportRoundTrip ==
  [][(returned'.op = "importData" /\ returned'.input = backup.file)
       => /\ returned'.success
          /\ \A table \in {"templates", "inspections", "photos"} :
               /\ DOMAIN db'[table] = DOMAIN backup.exported[table]
               /\ \A id \in DOMAIN db'[table] :
                    LET was == backup.exported[table][id]
                        is == db'[table][id] IN
                    /\ DOMAIN is \subseteq DOMAIN was
                    /\ \A f \in DOMAIN was :
                         IF f \in DOMAIN is
                           THEN is[f] = was[f]
                           ELSE f = "caption" /\ was[f] = "undefined"]_vars

\* An export with a completed inspection and a photo has been imported into a
\* store that had been changed since.
C25_Witness ==
  /\ returned.op = "importData"
  /\ returned.input = backup.file
  /\ \E i \in DOMAIN db.inspections : db.inspections[i].completedAt >= 0
  /\ \E i \in DOMAIN db.photos : db.photos[i].timestamp >= 0
  /\ queue # [i \in {} |-> 0]

\* C26: an import of a text that is not JSON, or whose data lacks version,
\* templates or inspections, returns success false with a message and leaves
\* the tables and the sync queue as they were.
C26_BadFileChangesNothing ==
  [][(/\ returned'.op = "importData"
      /\ \/ ~returned'.input.json
         \/ \E f \in {"version", "templates", "inspections"} :
              f \notin DOMAIN returned'.input.data)
       => /\ ~returned'.success
          /\ returned'.message \in {"Import failed", "Invalid data format"}
          /\ db' = db
          /\ queue' = queue]_vars

\* A text that is no backup has been refused with records in the store.
C26_Witness ==
  /\ returned.op = "importData"
  /\ ~returned.success
  /\ db.inspections # [i \in {} |-> 0]
  /\ db.photos # [i \in {} |-> 0]

\* ------------------------------------------- templates and their inspections
\* Inspections are made from stored templates, which are then changed,
\* deleted and duplicated.
NextFrame ==
  \/ handleSubmit
  \/ templateService_update
  \/ templateService_softDelete
  \/ templateService_hardDelete
  \/ templateService_duplicate

SpecFrame == Init /\ [][NextFrame]_vars

\* C27: a templateService operation (update, softDelete, hardDelete,
\* duplicate) leaves every stored inspection in the store with its template
\* name, its sections and their items, names, texts and order values as they
\* were.
C27_TemplateOperationsLeaveInspections ==
  [][(\/ db'.templates # db.templates
      \/ returned'.op = "add" /\ returned'.entityType = "template")
       => \A i \in DOMAIN db.inspections :
            /\ i \in DOMAIN db'.inspections
            /\ db'.inspections[i].templateName = db.inspections[i].templateName
            /\ db'.inspections[i].sections = db.inspections[i].sections]_vars

\* An operation on a template has returned with an inspection in the store
\* that was made from it and carries the name and the section it had then.
C27_Witness ==
  /\ returned.op = "add"
  /\ returned.entityType = "template"
  /\ \E i \in DOMAIN db.inspections :
       /\ db.inspections[i].templateId = returned.entityId
       /\ db.inspections[i].templateName = "n1"
       /\ DOMAIN db.inspections[i].sections # {}
       /\ \/ returned.entityId \notin DOMAIN db.templates
          \/ db.templates[returned.entityId].name # "n1"

\* ------------------------------------------------------- the template editor
\* A template is opened in the editor and its sections and items are added,
\* deleted and moved.
NextEditor ==
  \/ openEditor
  \/ addSection
  \/ deleteSection
  \/ moveSection
  \/ addItem
  \/ deleteItem

SpecEditor == Init /\ [][NextEditor]_vars

\* C28: in the editor's template the order values of the sections are 0 to
\* n-1 in array position, and so are the order values of the items of every
\* section.
C28_OrderIsArrayPosition ==
  editor # [null |-> TRUE] =>
    \A k \in 1..Len(editor.sections) :
      /\ editor.sections[k].order = k - 1
      /\ \A j \in 1..Len(editor.sections[k].items) :
           editor.sections[k].items[j].order = j - 1

\* The section named second stands first, after a move or a delete, and has
\* an item; the template has two sections.
C28_Witness ==
  /\ editor # [null |-> TRUE]
  /\ Len(editor.sections) = 2
  /\ editor.sections[1].name = "Section 2"
  /\ Len(editor.sections[1].items) >= 1

\* ---------------------------------------------------- item calls together
\* An inspection of two items is stored and each of two callers makes one
\* item call; the calls' steps interleave.
NextFlight ==
  \/ createWithItems
  \/ \E c \in ItemCallers : ItemCallGet(c)
  \/ \E c \in ItemCallers : ItemCallPut(c)
  \/ \E c \in ItemCallers : ItemCallAdd(c)

SpecFlight == Init /\ [][NextFlight]_vars

\* C29: once two item calls on different items of one inspection have both
\* returned, the stored inspection holds what each of them brought: the
\* status or notes of an updateItem, the photo id of an addPhotoToItem.
C29_BothChangesStored ==
  \A c1 \in {"u1", "u2"}, c2 \in {"u1", "u2"} :
    (/\ flight[c1].pc = "returned"
     /\ flight[c2].pc = "returned"
     /\ flight[c1].inspectionId = flight[c2].inspectionId
     /\ flight[c1].itemId # flight[c2].itemId)
      => LET item == db.inspections[flight[c1].inspectionId]
                       .sections[flight[c1].sectionId].items[flight[c1].itemId] IN
         IF flight[c1].op = "updateItem"
           THEN \A f \in DOMAIN flight[c1].updates : item[f] = flight[c1].updates[f]
           ELSE \E k \in DOMAIN item.photoIds : item.photoIds[k] = flight[c1].photoId

\* ------------------------------------------ drains whose store writes fail
\* Batches of new entities and drains, one at a time, in which the remote
\* call and the writes of markSynced and markFailed can fail.
NextReject ==
  \/ Quiet /\ AddAlone(CreateArgs, Entities)
  \/ \E d \in SeqDrains : Quiet /\ ProcessQueueStart(d)
  \/ \E d \in SeqDrains : ItemSynced(d)
  \/ \E d \in SeqDrains : ItemFailed(d)
  \/ \E d \in SeqDrains : ItemRejected(d)
  \/ \E d \in SeqDrains : ProcessQueueReturn(d)
  \/ \E d \in SeqDrains : ProcessQueueRejected(d)
  \/ Quiet /\ RetryFailed

SpecReject == Init /\ [][NextReject]_vars

\* C30: whatever fails while processQueue handles an item, the loop moves on
\* to the next item or to the return of the counts, the item is counted as
\* a success or as a failure, and an item counted as a failure is stored as
\* failed.
C30_ItemFailureDoesNotReject ==
  [][\A d \in {"p1", "p2"} :
       (drain[d].pc = "loop" /\ drain'[d] # drain[d])
         => /\ drain'[d].pc \in {"loop", "done"}
            /\ drain'[d].i = drain[d].i + 1
            /\ drain'[d].success + drain'[d].failed
                 = drain[d].success + drain[d].failed + 1
            /\ drain'[d].failed = drain[d].failed + 1
                 => queue'[drain[d].pending[drain[d].i].id].status = "failed"]_vars

\* ------------------------------------------------------- abandoned drains
\* Batches of new entities and drains, one at a time; a drain can be cut off
\* at any item, after which the application is loaded again.
NextAbandon ==
  \/ Quiet /\ AddAlone(CreateArgs, Entities)
  \/ \E d \in SeqDrains : Quiet /\ ProcessQueueStart(d)
  \/ \E d \in SeqDrains : ItemSynced(d)
  \/ \E d \in SeqDrains : ItemFailed(d)
  \/ \E d \in SeqDrains : ProcessQueueReturn(d)
  \/ \E d \in SeqDrains : Abandon(d)
  \/ \E d \in SeqDrains : Reload(d)

SpecAbandon == Init /\ [][NextAbandon]_vars

\* C31: when a drain is abandoned, every item of its snapshot that was not yet
\* handled is in the queue and pending, and an item handled before is gone or
\* failed; and the snapshot of a drain that starts holds every pending item of
\* the queue, so the next drain takes up each item the abandoned one left.
C31_AbandonedDrainLosesNothing ==
  [][\A d \in {"p1", "p2"} :
       /\ (drain[d].pc = "loop" /\ drain'[d].pc = "abandoned")
            => /\ \A k \in drain[d].i..Len(drain[d].pending) :
                    /\ drain[d].pending[k].id \in DOMAIN queue'
                    /\ queue'[drain[d].pending[k].id].status = "pending"
               /\ \A k \in 1..(drain[d].i - 1) :
                    drain[d].pending[k].id \in DOMAIN queue'
                      => queue'[drain[d].pending[k].id].status = "failed"
       /\ (drain[d].pc = "idle" /\ drain'[d].pc \in {"loop", "done"})
            => {drain'[d].pending[k].id : k \in 1..Len(drain'[d].pending)}
                 = {id \in DOMAIN queue : queue[id].status = "pending"}]_vars

\* A drain was abandoned at its second item after it had synced the first.
C31_Witness ==
  \E d \in {"p1", "p2"} :
    /\ drain[d].pc = "abandoned"
    /\ drain[d].i = 2
    /\ drain[d].success = 1
    /\ drain[d].pending[1].id \notin DOMAIN queue
    /\ drain[d].pending[2].id \in DOMAIN queue

\* ------------------------------------------------------- attaching photos
\* Inspections are created and deleted and photo ids are attached to their
\* items and sections, one call after another.
NextAttach ==
  \/ inspectionService_create
  \/ addPhotoToItem(PhotoIds)
  \/ addPhotoToSection(PhotoIds)
  \/ inspectionService_delete

SpecAttach == Init /\ [][NextAttach]_vars

\* C32: a step changes a photoIds array of an item or a section only by
\* appending an id the array does not hold, so a call repeated with the same
\* arguments leaves the array as the first call left it, and no array holds
\* an id twice.
C32_AttachIsIdempotent ==
  [][\A i \in DOMAIN db.inspections \cap DOMAIN db'.inspections :
       \A s \in DOMAIN db.inspections[i].sections :
         LET Grown(before, after) ==
               /\ \/ after = before
                  \/ /\ Len(after) = Len(before) + 1
                     /\ SubSeq(after, 1, Len(before)) = before
                     /\ \A k \in 1..Len(before) : before[k] # after[Len(after)]
               /\ \A j, k \in 1..Len(after) : after[j] = after[k] => j = k
             old == db.inspections[i].sections[s]
             new == db'.inspections[i].sections[s] IN
         /\ Grown(old.photoIds, new.photoIds)
         /\ \A it \in DOMAIN old.items \cap DOMAIN new.items :
              Grown(old.items[it].photoIds, new.items[it].photoIds)]_vars

\* An item and its section each hold both photo ids, in different orders.
C32_Witness ==
  \E i \in DOMAIN db.inspections :
    \E s \in DOMAIN db.inspections[i].sections :
      /\ db.inspections[i].sections[s].photoIds = <<"ph2", "ph1">>
      /\ \E it \in DOMAIN db.inspections[i].sections[s].items :
           db.inspections[i].sections[s].items[it].photoIds = <<"ph1", "ph2">>

\* C33 (SpecHook): when the page is on screen and the online event arrives
\* with pending items in the queue, no drain in flight and no sync under way,
\* a drain is started in the same step.
C33_OnlineEventStartsDrain ==
  [][(/\ hook.mounted
      /\ ~app.isOnline
      /\ app'.isOnline
      /\ ~hook.isSyncing
      /\ \E id \in DOMAIN queue : queue[id].status = "pending"
      /\ \A d \in {"p1", "p2"} : drain[d].pc = "idle")
       => \E d \in {"p1", "p2"} : drain'[d].pc # "idle"]_vars

\* C34 (SpecTemplates): a pending item for an entity whose record is not in
\* its collection is a delete.
C34_AbsentEntityHasOnlyDelete ==
  \A id \in DOMAIN queue :
    (/\ queue[id].status = "pending"
     /\ \/ queue[id].entityType = "template" /\ queue[id].entityId \notin DOMAIN db.templates
        \/ queue[id].entityType = "inspection"
             /\ queue[id].entityId \notin DOMAIN db.inspections
        \/ queue[id].entityType = "photo" /\ queue[id].entityId \notin DOMAIN db.photos)
      => queue[id].action = "delete"

\* --------------------------- edits of queued entities and drains, in turn
NextOrder ==
  \/ Quiet /\ AddAlone(AddArgs, Entities)
  \/ \E d \in SeqDrains : Quiet /\ ProcessQueueStart(d)
  \/ \E d \in SeqDrains : ItemSynced(d)
  \/ \E d \in SeqDrains : ProcessQueueReturn(d)

SpecOrder == Init /\ [][NextOrder]_vars

\* C35 as stated (SpecOrder): a drain that starts right after an add has
\* coalesced into an entity's pending item handles that item last, after the
\* item of every other entity.
C35_EditedEntityGoesLast ==
  [][\A d \in {"p1"} :
       (/\ returned.op = "add"
        /\ returned.existing # NoItem
        /\ drain[d].pc = "idle"
        /\ drain'[d].pc # "idle")
         => \A i \in 1..Len(drain'[d].pending) :
              drain'[d].pending[i].id = returned.id => i = Len(drain'[d].pending)]_vars

\* C35 as amended (SpecOrder): a drain that starts right after an add has
\* coalesced into an entity's pending item, at a time later than the createdAt
\* of every other pending item, handles that item last.
C35_EditedLaterGoesLast ==
  [][\A d \in {"p1"} :
       (/\ returned.op = "add"
        /\ returned.existing # NoItem
        /\ \A b \in DOMAIN queue :
             (queue[b].status = "pending" /\ b # returned.id) => queue[b].createdAt < now
        /\ drain[d].pc = "idle"
        /\ drain'[d].pc # "idle")
         => \A i \in 1..Len(drain'[d].pending) :
              drain'[d].pending[i].id = returned.id => i = Len(drain'[d].pending)]_vars

\* An add has just coalesced into the pending item of one entity, later than
\* the createdAt of another entity's pending item whose id sorts after it,
\* and no drain is running.
C35_Witness ==
  /\ returned.op = "add"
  /\ returned.existing # NoItem
  /\ returned.id \in DOMAIN queue
  /\ queue[returned.id].createdAt = now
  /\ \E b \in DOMAIN queue :
       /\ queue[b].status = "pending"
       /\ queue[b].entityType # returned.entityType
       /\ returned.id < b
       /\ queue[b].createdAt < now
  /\ \A d \in {"p1"} : drain[d].pc = "idle"

\* ------------------------------------------- imports of an edited backup
NextImport ==
  \/ inspectionService_create
  \/ photoService_create
  \/ handleExport
  \/ handleImportEdited

SpecImport == Init /\ [][NextImport]_vars

\* C36 (SpecImport): an importData that returns success false, for whatever
\* reason, leaves the templates, inspections and photos as they were stored
\* before the call.
C36_FailedImportKeepsTheStore ==
  [][(returned'.op = "importData" /\ ~returned'.success) => db' = db]_vars

\* --------------------------------------------------- initializeDatabase
\* The ids crypto.randomUUID() can hand out for the sample templates.
SeedIds == {"t1", "t2", "t3", "t4"}

\* initializeDatabase() is called and db.settings.get('main') resolves.
initializeDatabase(c) ==
  /\ boot.call[c].pc = "idle"
  /\ boot' = [boot EXCEPT !.call[c] =
       [IdleBoot EXCEPT !.pc = "get", !.existingSettings = "main" \in boot.settings]]
  /\ NotEnqueued(now)
  /\ UNCHANGED <<db, uuids, page, backup, editor, flight>>

\* No settings were found: db.settings.put stores the record 'main'.
SettingsPut(c) ==
  /\ boot.call[c].pc = "get"
  /\ ~boot.call[c].existingSettings
  /\ boot' = [boot EXCEPT !.settings = @ \cup {"main"}, !.call[c].pc = "put"]
  /\ NotEnqueued(now)
  /\ UNCHANGED <<db, uuids, page, backup, editor, flight>>

\* db.templates.count() resolves: with templates in the table the call
\* returns, with none it goes on to seed.
TemplateCount(c) ==
  /\ \/ boot.call[c].pc = "put"
     \/ boot.call[c].pc = "get" /\ boot.call[c].existingSettings
  /\ LET templateCount == Cardinality(DOMAIN db.templates) IN
     boot' = [boot EXCEPT !.call[c] =
       IF templateCount = 0
         THEN [@ EXCEPT !.pc = "seed", !.templateCount = templateCount]
         ELSE IdleBoot]
  /\ NotEnqueued(now)
  /\ UNCHANGED <<db, uuids, page, backup, editor, flight>>

\* seedSampleTemplates: the two sample templates, each under a new id, are
\* stored by bulkPut, and initializeDatabase returns.
seedSampleTemplates(c) ==
  /\ boot.call[c].pc = "seed"
  /\ \E studio \in SeedIds \ DOMAIN db.templates :
       \E bedroom \in SeedIds \ (DOMAIN db.templates \cup {studio}) :
         db' = [db EXCEPT !.templates =
           TableAdd(TableAdd(@, studio,
                             NewTemplate(studio, "Studio Apartment", OneSection, now)),
                    bedroom, NewTemplate(bedroom, "1 Bedroom Apartment", OneSection, now))]
  /\ boot' = [boot EXCEPT !.call[c] = IdleBoot]
  /\ NotEnqueued(now)
  /\ UNCHANGED <<uuids, page, backup, editor, flight>>

\* The application's first start: the store is empty.
InitEmpty ==
  /\ queue = EmptyQueue
  /\ usedIds = {}
  /\ now = 0
  /\ addCall = [c \in AddCallers |-> IdleCall]
  /\ drain = [d \in Drains |-> IdleDrain]
  /\ app = [isOnline |-> TRUE, pendingSyncCount |-> 0, lastSyncedAt |-> NoTime]
  /\ hook = Unmounted
  /\ returned = NoCall
  /\ db = [templates |-> EmptyTable, inspections |-> EmptyTable, photos |-> EmptyTable]
  /\ uuids = {}
  /\ page = NoInspection
  /\ backup = NoBackup
  /\ editor = NoTemplate
  /\ flight = [c \in ItemCallers |-> IdleItemCall]
  /\ boot = [settings |-> {}, call |-> [c \in Booters |-> IdleBoot]]

NextSeed ==
  \/ \E c \in Booters : initializeDatabase(c)
  \/ \E c \in Booters : SettingsPut(c)
  \/ \E c \in Booters : TemplateCount(c)
  \/ \E c \in Booters : seedSampleTemplates(c)

SpecSeed == InitEmpty /\ [][NextSeed]_vars

\* C37 (SpecSeed): once initializeDatabase has run on an empty store and no
\* call is in flight, however the calls interleaved, the store holds the two
\* sample templates and the one settings record 'main'.
C37_SeedingIsRaceSafe ==
  (/\ \A c \in {"b1", "b2"} : boot.call[c].pc = "idle"
   /\ boot.settings # {})
    => /\ Cardinality(DOMAIN db.templates) = 2
       /\ boot.settings = {"main"}

\* C38 (SpecInspections): every stored inspection with status completed has
\* no item with status pending.
C38_CompletedHasNoPendingItem ==
  \A i \in DOMAIN db.inspections :
    db.inspections[i].status = "completed"
      => \A k \in DOMAIN db.inspections[i].sections :
           \A j \in DOMAIN db.inspections[i].sections[k].items :
             db.inspections[i].sections[k].items[j].status # "pending"

\* ------------------- one drain, with add calls between its steps
NextAccount ==
  \/ AddAlone(CreateArgs, Entities)
  \/ \E d \in SeqDrains : ProcessQueueStart(d)
  \/ \E d \in SeqDrains : ItemSynced(d)
  \/ \E d \in SeqDrains : ItemFailed(d)
  \/ \E d \in SeqDrains : ProcessQueueReturn(d)

SpecAccount == Init /\ [][NextAccount]_vars

\* C39 (SpecAccount): when processQueue is about to return {success, failed},
\* success + failed is the number of items of its snapshot, exactly success of
\* them are gone from the queue, exactly failed of them are stored as failed,
\* and none of them is pending.
C39_DrainAccounting ==
  \A d \in {"p1"} :
    drain[d].pc = "done"
      => LET snapshot == drain[d].pending
             gone == {k \in DOMAIN snapshot : snapshot[k].id \notin DOMAIN queue}
             failed == {k \in DOMAIN snapshot :
                          /\ snapshot[k].id \in DOMAIN queue
                          /\ queue[snapshot[k].id].status = "failed"}
         IN /\ drain[d].success + drain[d].failed = Len(snapshot)
            /\ Cardinality(gone) = drain[d].success
            /\ Cardinality(failed) = drain[d].failed
            /\ \A k \in DOMAIN snapshot :
                 snapshot[k].id \in DOMAIN queue
                   => queue[snapshot[k].id].status # "pending"

\* A drain of two items is about to return with one synced and one failed,
\* the failed one coalesced into by an add after the snapshot was taken.
C39_Witness ==
  \E d \in {"p1"} :
    /\ drain[d].pc = "done"
    /\ drain[d].success = 1
    /\ drain[d].failed = 1
    /\ \E k \in DOMAIN drain[d].pending :
         /\ drain[d].pending[k].id \in DOMAIN queue
         /\ queue[drain[d].pending[k].id].createdAt # drain[d].pending[k].createdAt

\* C40 (SpecDrain): the markFailed of a drain's catch block, whatever the
\* error's message, leaves the item stored as failed with retryCount one
\* higher, the message as lastError and the time of the call as
\* lastAttemptAt, and creates no item.
C40_MarkFailedRecordsTheAttempt ==
  [][\A d \in {"p1"} :
       (/\ drain[d].pc = "loop"
        /\ drain'[d].failed = drain[d].failed + 1
        /\ drain[d].pending[drain[d].i].id \in DOMAIN queue)
         => LET id == drain[d].pending[drain[d].i].id IN
            /\ DOMAIN queue' = DOMAIN queue
            /\ queue'[id].status = "failed"
            /\ queue'[id].retryCount = queue[id].retryCount + 1
            /\ queue'[id].lastError \in {"", "net"}
            /\ queue'[id].lastAttemptAt = now']_vars

====
